---- MODULE Spec2Model ----
(***************************************************************************)
(* HEC-HMS back end: the pipeline orchestrator (RunProcessingPipeline,     *)
(* runHMSPipelineHistorical), the hourly scheduler (StartScheduler,        *)
(* archiveFileAndTriggerPipeline), the HTTP triggers and the grid-file     *)
(* acquisition (downloadGRIBFiles).                                        *)
(***************************************************************************)
EXTENDS Integers, Sequences, FiniteSets, TLC

VARIABLES runs, sched, rolling, archiveCopy,   \* pipelines and scheduler
          now, nextRun, clockPc,                 \* the scheduler's clock
          acq, local, downloaded, lastOp,        \* grid-file acquisition
          ctl,                                   \* the control file and its patch
          rnd,                                   \* rounding of request times
          hreq,                                  \* a historical request with its dates
          args,                                  \* arguments of RunProcessingPipeline
          sms,                                   \* SendSMS and its environment
          bat,                                   \* a batch script, resolved and executed
          hrrr,                                  \* the forecast acquisition
          dl,                                    \* one download of a grid file
          unarchived,                            \* rolling artifact holds content no archive has
          interm,                                \* intermediate artifacts on disk
          zclk                                   \* the scheduler's clock in a time zone

sysVars == <<runs, sched, rolling, archiveCopy>>
clockVars == <<now, nextRun, clockPc>>
acqVars == <<acq, local, downloaded, lastOp>>
fnVars == <<ctl, rnd, hreq, args, sms>>
extVars == <<bat, hrrr, dl>>
artVars == <<unarchived, interm>>
zoneVars == <<zclk>>
vars == <<sysVars, clockVars, acqVars, fnVars, extVars, artVars, zoneVars>>

(***************************************************************************)
(* Bounds                                                                  *)
(***************************************************************************)
\* number of pipeline runs started over HTTP that may be alive at once
MaxRuns == 2

SchedRun == 0
HttpRuns == 1..MaxRuns
RunIds == {SchedRun} \cup HttpRuns

(***************************************************************************)
(* Step tables of the two pipelines                                        *)
(***************************************************************************)
\* names of the entries of scriptsToRun, in declaration order
scriptsToRun ==
  << "Merge GRIB Files RealTime",
     "Merge GRIB Files RealTime Pass 2",
     "Merge GRIB Files Forcast",
     "Combine DSS Records Pass1 Pass2",
     "Combine DSS Records Realtime Pass1 Pass2 and HRR" >>

\* step number printed for the script at 0-based index i of scriptsToRun
ScriptStepNum(i) == i + 3

controlFileStepNum == Len(scriptsToRun) + 3

finalStepNum == controlFileStepNum + 1

\* the real-time pipeline as one ordered list: two native download steps,
\* the scripts, the control-file patch, the simulation
RealTimeSteps ==
  << [name |-> "Get GRIB2 Files RealTime", kind |-> "net"],
     [name |-> "Get HRRR Forecast GRIB", kind |-> "net"] >>
  \o [i \in 1..Len(scriptsToRun) |-> [name |-> scriptsToRun[i], kind |-> "exec"]]
  \o << [name |-> "Set Control File", kind |-> "fs"],
        [name |-> "HMS RealTime Computation", kind |-> "exec"] >>

\* the historical pipeline: step 0 removes the old DSS files, steps 1..4 are
\* logged as STEP 1..STEP 4; the tuple is indexed by step + 1
HistoricalSteps ==
  << [name |-> "Delete existing DSS files", kind |-> "fs"],
     [name |-> "Downloading historical MRMS data", kind |-> "net"],
     [name |-> "Merging GRIB files", kind |-> "exec"],
     [name |-> "Updating control file", kind |-> "fs"],
     [name |-> "Running HMS historical computation", kind |-> "exec"] >>

FirstStep(variant) == IF variant = "historical" THEN 0 ELSE 1
LastStep(variant) == IF variant = "historical" THEN 4 ELSE Len(RealTimeSteps)

StepDef(variant, step) ==
  IF variant = "historical" THEN HistoricalSteps[step + 1] ELSE RealTimeSteps[step]

StepName(variant, step) == StepDef(variant, step).name
StepKind(variant, step) == StepDef(variant, step).kind

\* the step that follows a successful step
NextStepRetry(step) == step
NextStep(step) == step + 1

\* the settling delay slept after a successful real-time step; the script loop
\* sleeps after every script but the last, 15 s after the first merge
DelayAfter(variant, step) ==
  IF variant = "historical" THEN "none"
  ELSE IF step \in {1, 2} THEN "short"
  ELSE IF step >= 3 /\ step < 3 + Len(scriptsToRun)
       THEN IF step - 3 < Len(scriptsToRun) - 1
            THEN IF StepName(variant, step) = "Merge GRIB Files RealTime" THEN "long" ELSE "short"
            ELSE "none"
  ELSE IF step = controlFileStepNum THEN "short"
  ELSE "none"

(***************************************************************************)
(* Errors returned by the pipelines                                        *)
(***************************************************************************)
NoErr == [stepNum |-> 0, stepName |-> "", text |-> ""]

\* validity classes of a historical request and the error each one returns
HistReqClasses ==
  {"ok", "badStart", "badEnd", "before2021", "future", "startAfterEnd", "tooLong"}

HistValidationText(req) ==
  CASE req = "badStart" -> "invalid start date format"
    [] req = "badEnd" -> "invalid end date format"
    [] req = "before2021" -> "dates must be from 2021 to current date"
    [] req = "future" -> "dates cannot be in the future"
    [] req = "startAfterEnd" -> "start date must be before or equal to end date"
    [] req = "tooLong" -> "date range cannot exceed 5 days"
    [] OTHER -> "failed to create output directory"

\* the error a failing step returns; the real-time pipeline formats
\* "failed at step %d (%s)", the historical one a fixed message per site
StepError(variant, step, req) ==
  IF variant = "historical"
  THEN [stepNum |-> 0, stepName |-> "",
        text |-> CASE step = 1 -> HistValidationText(req)
                   [] step = 2 -> "failed to merge GRIB files"
                   [] step = 3 -> "failed to update control file"
                   [] OTHER -> "HMS computation failed"]
  ELSE [stepNum |-> IF step <= 2 THEN step
                    ELSE IF step < 3 + Len(scriptsToRun) THEN ScriptStepNum(step - 3)
                    ELSE IF step = 3 + Len(scriptsToRun) THEN controlFileStepNum
                    ELSE finalStepNum,
        stepName |-> StepName(variant, step),
        text |-> "failed at step"]

\* what a step does to the files on disk: step 0 of the historical run
\* removes the two DSS files, step 1 of the real-time run empties the output
\* directory of the date before it downloads, downloads create files, the
\* scripts and the simulation write DSS files, the patch rewrites the control
\* file
FileEffect(variant, step) ==
  IF variant = "historical" /\ step = 0 THEN "delete"
  ELSE IF variant = "realtime" /\ step = 1 THEN "clear"
  ELSE IF StepKind(variant, step) = "net" THEN "create"
  ELSE "write"

(***************************************************************************)
(* Pipeline runs                                                           *)
(***************************************************************************)
IdleRun ==
  [variant |-> "none", trigger |-> "none", pc |-> "idle", step |-> 0,
   executed |-> << >>, err |-> NoErr, deadline |-> FALSE, req |-> "ok", delay |-> "none"]

Active(r) == runs[r].pc \in {"call", "delay"}

\* entering a step: the step is appended to the run's trace
EnterStep(run, step) ==
  [run EXCEPT !.pc = "call", !.step = step, !.executed = Append(@, step), !.delay = "none"]

NewRun(variant, trigger, deadline, req) ==
  EnterStep([variant |-> variant, trigger |-> trigger, pc |-> "idle", step |-> 0,
             executed |-> << >>, err |-> NoErr, deadline |-> deadline, req |-> req,
             delay |-> "none"],
            FirstStep(variant))

\* may the step in flight return an error?  downloadGRIBFiles always returns
\* nil, the historical step 0 only logs its failures
StepCanFail(run) ==
  IF run.variant = "historical" THEN run.step >= 1 ELSE run.step >= 2

\* must it?  step 2 of the real-time run and step 1 of the historical run
\* validate the request before doing anything else
StepMustFail(run) ==
  /\ run.req # "ok"
  /\ \/ run.variant = "historical" /\ run.step = 1
     \/ run.variant = "realtime" /\ run.step = 2

Succeeded(run) ==
  IF run.step = LastStep(run.variant) THEN [run EXCEPT !.pc = "done"]
  ELSE IF DelayAfter(run.variant, run.step) = "none"
       THEN EnterStep(run, NextStep(run.step))
       ELSE [run EXCEPT !.pc = "delay", !.delay = DelayAfter(run.variant, run.step)]

Failed(run) ==
  [run EXCEPT !.pc = "failed", !.err = StepError(run.variant, run.step, run.req)]

\* the step in flight returns
StepReturns(r) ==
  /\ runs[r].pc = "call"
  /\ \E ok \in BOOLEAN :
       /\ ok => ~StepMustFail(runs[r])
       /\ ~ok => StepCanFail(runs[r])
       /\ runs' = [runs EXCEPT ![r] = IF ok THEN Succeeded(@) ELSE Failed(@)]
       \* the simulation rewrites the rolling artifact
       /\ rolling' = IF ok /\ runs[r].variant = "realtime" /\ runs[r].step = finalStepNum
                     THEN TRUE ELSE rolling
  /\ UNCHANGED <<sched, archiveCopy>>

\* the settling sleep is over, the next step starts
DelayElapsed(r) ==
  /\ runs[r].pc = "delay"
  /\ runs' = [runs EXCEPT ![r] = EnterStep(@, NextStep(@.step))]
  /\ UNCHANGED <<sched, rolling, archiveCopy>>

\* the deadline carried by the call in flight: exec.CommandContext gets the
\* run's context, http.Get of the real-time downloads gets none, the
\* historical downloads use a client with its own 30 s timeout
CallDeadline(run) ==
  CASE StepKind(run.variant, run.step) = "exec" -> IF run.deadline THEN "ctx" ELSE "none"
    [] StepKind(run.variant, run.step) = "net" ->
         IF run.variant = "historical" THEN "client" ELSE "none"
    [] OTHER -> "none"

\* the context's deadline passes while a child process runs: it is killed
DeadlineExceeded(r) ==
  /\ runs[r].pc = "call"
  /\ CallDeadline(runs[r]) = "ctx"
  /\ runs' = [runs EXCEPT ![r] = Failed(@)]
  /\ UNCHANGED <<sched, rolling, archiveCopy>>

(***************************************************************************)
(* HTTP triggers                                                           *)
(***************************************************************************)
\* a slot whose previous goroutine has ended may host the next one
Free(r) == ~Active(r)

HandlerGuardMutex(r) == Free(r) /\ \A q \in RunIds : ~Active(q)
HandlerGuard(r) == Free(r)

\* POST /api/run-hms-pipeline: go func() { ctx with 60 min timeout; run }
handleRunHMSPipeline(r) ==
  /\ r \in HttpRuns
  /\ HandlerGuard(r)
  /\ \E req \in {"ok", "badRunHour"} :
       runs' = [runs EXCEPT ![r] = NewRun("realtime", "http", TRUE, req)]
  /\ UNCHANGED <<sched, rolling, archiveCopy>>

\* POST /api/run-hms-pipeline-historical
handleRunHMSPipelineHistorical(r) ==
  /\ r \in HttpRuns
  /\ HandlerGuard(r)
  /\ \E req \in HistReqClasses :
       runs' = [runs EXCEPT ![r] = NewRun("historical", "http", TRUE, req)]
  /\ UNCHANGED <<sched, rolling, archiveCopy>>

(***************************************************************************)
(* Hourly scheduler                                                        *)
(***************************************************************************)
MaxDeleteAttempts == 5

\* time.Sleep between two attempts to delete the rolling artifact, in ms
RetryBackoffMs == 100

\* len(filesToDelete)
NumFilesToDelete == 5

\* the scheduler between two ticks
SchedLoop ==
  [pc |-> "loop", attempts |-> 0, lastDelete |-> "none", wait |-> 0, idx |-> 0,
   logged |-> FALSE, skipped |-> FALSE]

\* top of the loop: compute nextRun and sleep until it
SchedSleep ==
  /\ sched.pc = "loop"
  /\ sched' = [sched EXCEPT !.pc = "sleeping", !.skipped = FALSE]
  /\ UNCHANGED <<runs, rolling, archiveCopy>>

\* os.Stat(sourceFilePath) on wake: a missing artifact skips the tick
AfterStatAlways(exists) == "mkdir"
AfterStat(exists) == IF exists THEN "mkdir" ELSE "loop"

SchedWake ==
  /\ sched.pc = "sleeping"
  /\ sched' = [sched EXCEPT !.pc = AfterStat(rolling), !.skipped = ~rolling]
  /\ archiveCopy' = "none"
  /\ UNCHANGED <<runs, rolling>>

\* os.MkdirAll(archiveDirectory)
SchedMkdir ==
  /\ sched.pc = "mkdir"
  /\ \E ok \in BOOLEAN : sched' = [sched EXCEPT !.pc = IF ok THEN "open" ELSE "loop"]
  /\ UNCHANGED <<runs, rolling, archiveCopy>>

\* os.Open(sourceFilePath)
SchedOpen ==
  /\ sched.pc = "open"
  /\ \E ok \in BOOLEAN :
       /\ ok => rolling
       /\ sched' = [sched EXCEPT !.pc = IF ok THEN "create" ELSE "loop"]
  /\ UNCHANGED <<runs, rolling, archiveCopy>>

\* os.Create(archiveFilePath)
SchedCreateContinues ==
  /\ sched.pc = "create"
  /\ \E ok \in BOOLEAN :
       /\ sched' = [sched EXCEPT !.pc = "copy"]
       /\ archiveCopy' = IF ok THEN "partial" ELSE archiveCopy
  /\ UNCHANGED <<runs, rolling>>
SchedCreate ==
  /\ sched.pc = "create"
  /\ \E ok \in BOOLEAN :
       /\ sched' = [sched EXCEPT !.pc = IF ok THEN "copy" ELSE "loop"]
       /\ archiveCopy' = IF ok THEN "partial" ELSE archiveCopy
  /\ UNCHANGED <<runs, rolling>>

\* io.Copy; a failed copy ends the tick after os.Remove(archiveFilePath),
\* whose result is not looked at: the partial archive file is gone or stays
SchedCopy ==
  /\ sched.pc = "copy"
  /\ \E ok \in BOOLEAN, cleaned \in BOOLEAN :
       /\ ok => cleaned
       /\ sched' = [sched EXCEPT !.pc = IF ok THEN "delete" ELSE "loop", !.attempts = 0]
       /\ archiveCopy' = IF ok THEN "complete" ELSE IF cleaned THEN "none" ELSE "partial"
  /\ UNCHANGED <<runs, rolling>>

\* after a failed attempt: another one, or the end of the loop
RetryDeleteUnlessOk(outcome, attempts) ==
  outcome # "ok" /\ attempts + 1 < MaxDeleteAttempts
RetryDelete(outcome, attempts) ==
  outcome = "transient" /\ attempts + 1 < MaxDeleteAttempts

\* one attempt of os.Remove(sourceFilePath): success, a permission or
\* not-exist error (no retry), or another error (100 ms, then retry)
SchedDeleteOriginal ==
  /\ sched.pc = "delete"
  /\ \E outcome \in {"ok", "permanent", "transient"} :
       /\ outcome = "ok" => rolling
       /\ rolling' = IF outcome = "ok" THEN FALSE ELSE rolling
       /\ sched' = IF RetryDelete(outcome, sched.attempts)
                   THEN [sched EXCEPT !.attempts = @ + 1, !.lastDelete = outcome,
                                      !.wait = RetryBackoffMs]
                   ELSE [sched EXCEPT !.pc = "extra", !.attempts = 0, !.idx = 0,
                                      !.lastDelete = "none", !.wait = 0]
  /\ UNCHANGED <<runs, archiveCopy>>

\* what os.Stat and os.Remove give for one of filesToDelete
ExtraOutcomes == {"missing", "statError", "removeError", "removed"}

\* after one file of filesToDelete, whatever became of it
AfterExtraFileAbort(outcome, idx) ==
  IF outcome \in {"statError", "removeError"} THEN "trigger"
  ELSE IF idx + 1 < NumFilesToDelete THEN "extra" ELSE "trigger"
AfterExtraFile(outcome, idx) ==
  IF idx + 1 < NumFilesToDelete THEN "extra" ELSE "trigger"

\* a failed stat or delete is logged; a missing file is passed over
ExtraLogged(outcome) == outcome \in {"statError", "removeError"}

\* one turn of the loop over filesToDelete: os.Stat, then os.Remove of a
\* file that exists
SchedDeleteExtraFile(outcome) ==
  /\ sched.pc = "extra"
  /\ sched' = [sched EXCEPT !.pc = AfterExtraFile(outcome, sched.idx),
                            !.idx = IF AfterExtraFile(outcome, sched.idx) = "extra"
                                    THEN @ + 1 ELSE 0,
                            !.logged = AfterExtraFile(outcome, sched.idx) = "extra"
                                       /\ ExtraLogged(outcome)]
  /\ UNCHANGED <<runs, rolling, archiveCopy>>

SchedDeleteExtra == \E outcome \in ExtraOutcomes : SchedDeleteExtraFile(outcome)

\* RunProcessingPipeline(context.Background(), "", "")
SchedTrigger ==
  /\ sched.pc = "trigger"
  /\ \E r \in RunIds :
       /\ Free(r)
       /\ \A q \in RunIds : Free(q) => r <= q
       /\ runs' = [runs EXCEPT ![r] = NewRun("realtime", "sched", FALSE, "ok")]
  /\ sched' = [sched EXCEPT !.pc = "pipeline"]
  /\ UNCHANGED <<rolling, archiveCopy>>

\* the call of RunProcessingPipeline is a plain call: the scheduler goes on
\* when the run it started has returned
SchedulerCallReturnedAsync == TRUE
SchedulerCallReturned == \A r \in RunIds : runs[r].trigger = "sched" => ~Active(r)

\* the result is logged, nothing of the returned run is kept, and the loop
\* starts over
SchedPipelineReturns ==
  /\ sched.pc = "pipeline"
  /\ SchedulerCallReturned
  /\ sched' = [sched EXCEPT !.pc = "loop"]
  /\ runs' = [r \in RunIds |->
                IF runs[r].trigger = "sched" /\ ~Active(r) THEN IdleRun ELSE runs[r]]
  /\ UNCHANGED <<rolling, archiveCopy>>

SchedulerStep ==
  \/ SchedSleep \/ SchedWake \/ SchedMkdir \/ SchedOpen \/ SchedCreate
  \/ SchedCopy \/ SchedDeleteOriginal \/ SchedDeleteExtra \/ SchedTrigger
  \/ SchedPipelineReturns

(***************************************************************************)
(* The scheduler's trigger time.  Time is counted in slices of a minute     *)
(* since midnight of day 0, on the wall clock of a zone without clock       *)
(* changes.                                                                 *)
(***************************************************************************)
\* slices per minute and days of wall-clock time explored
SlicesPerMinute == 2
ClockDays == 1

MinutesPerHour == 60
HoursPerDay == 24
TriggerMinute == 15

SlicesPerHour == MinutesPerHour * SlicesPerMinute
SlicesPerDay == HoursPerDay * SlicesPerHour

\* now.Day(), now.Hour(), now.Minute() (the day stands for year, month, day)
DayOf(t) == t \div SlicesPerDay
HourOf(t) == (t % SlicesPerDay) \div SlicesPerHour
MinuteOf(t) == (t % SlicesPerHour) \div SlicesPerMinute

\* time.Date(year, month, day, hour, min, 0, 0, loc)
TimeDate(day, hour, min) == ((day * HoursPerDay + hour) * MinutesPerHour + min) * SlicesPerMinute

\* nextRun as the loop computes it from now
NextRunAtStrict(t) ==
  IF MinuteOf(t) > TriggerMinute
  THEN TimeDate(DayOf(t), HourOf(t), TriggerMinute) + SlicesPerHour
  ELSE TimeDate(DayOf(t), HourOf(t), TriggerMinute)
NextRunAt(t) ==
  IF MinuteOf(t) >= TriggerMinute
  THEN TimeDate(DayOf(t), HourOf(t), TriggerMinute) + SlicesPerHour
  ELSE TimeDate(DayOf(t), HourOf(t), TriggerMinute)

ClockInit ==
  /\ now \in 0..(ClockDays * SlicesPerDay - 1)
  /\ nextRun = 0
  /\ clockPc = "loop"

ClockIdle ==
  /\ now = 0
  /\ nextRun = 0
  /\ clockPc = "loop"

\* now := time.Now(); nextRun := ...; sleepDuration := nextRun.Sub(now)
ComputeNextRun ==
  /\ clockPc = "loop"
  /\ nextRun' = NextRunAt(now)
  /\ clockPc' = "sleeping"
  /\ UNCHANGED now

\* time.Sleep(sleepDuration) returns at nextRun or a little later
SleepUntilNextRun ==
  /\ clockPc = "sleeping"
  /\ \E late \in 0..1 : now' = (IF nextRun > now THEN nextRun ELSE now) + late
  /\ clockPc' = "tick"
  /\ UNCHANGED nextRun

\* the work of the tick takes some time, then the loop starts over
TickWorkDurations == {0, 1, 50 * SlicesPerMinute, 70 * SlicesPerMinute}

TickWork ==
  /\ clockPc = "tick"
  /\ \E d \in TickWorkDurations :
       /\ now + d < ClockDays * SlicesPerDay
       /\ now' = now + d
  /\ clockPc' = "loop"
  /\ UNCHANGED nextRun

ClockNext == ComputeNextRun \/ SleepUntilNextRun \/ TickWork

(***************************************************************************)
(* Grid-file acquisition: downloadGRIBFiles runs the live stage, then the   *)
(* archive stage, on the output directory of the date.  Time is counted in  *)
(* hours.                                                                   *)
(***************************************************************************)
\* calls of downloadGRIBFiles explored, and the number of downloads of one
\* file up to which they are counted
MaxAcqRuns == 2
MaxCounted == 2

HoursBack == 24
DaysBack == 2
ArchiveFromHours == 48
ArchiveToHours == 24

\* the hour of the first run: noon of the third day
Now0 == 2 * HoursPerDay + 12

\* a name without the _YYYYMMDD-HHMMSS.grib2 pattern has no stamp
NoStamp == -1

\* what the two remote directories may list: names stamped around the edges
\* of the two windows, and a name that does not match the pattern
RtCatalogue ==
  {[src |-> "rt", ts |-> t] : t \in {Now0 - 25, Now0 - 24, Now0 - 1, NoStamp}}
ArCatalogue ==
  {[src |-> "ar", ts |-> t] : t \in {Now0 - 49, Now0 - 48, Now0 - 24, Now0 - 23, NoStamp}}
RemoteFiles == RtCatalogue \cup ArCatalogue

Absent == "absent"

\* parseGRIBFilename: did the name match, and the instant it encodes
ParseOK(f) == f.ts # NoStamp

\* "Skip if older than cutoff": fileTime.Before(cutoffTime)
OutsideRealtimeWindow(ts, t) == ts < t - HoursBack

\* fileTime.Before(cutoffStart) || fileTime.After(cutoffEnd)
OutsideArchiveWindowNoEnd(ts, t) == ts < t - ArchiveFromHours
OutsideArchiveWindow(ts, t) == ts < t - ArchiveFromHours \/ ts > t - ArchiveToHours

\* os.Stat(finalPath) succeeds: the decompressed target is there
AlreadyLocalNever(f) == FALSE
AlreadyLocalComplete(f) == local[f] = "complete"
AlreadyLocal(f) == local[f] # Absent

\* the archive directory of a day lists the files stamped on that day
ArchiveDay(day) ==
  {f \in ArCatalogue : f.ts = NoStamp \/ f.ts \div HoursPerDay = day}

\* lastOp is what the loop iteration just taken did with its candidate; every
\* other step leaves no candidate behind
NoOp == [file |-> CHOOSE f \in RemoteFiles : TRUE, op |-> "none", now |-> Now0]

\* downloadGRIBFiles logs the errors of its two stages and returns nil
StageReturn == "nil"

\* RunProcessingPipeline after step 1: "if err != nil { return ... }"
OrchestratorAfter(err) == IF err # "nil" THEN "abort" ELSE "continue"

AcqIdle ==
  /\ acq = [pc |-> "idle", run |-> 0, clock |-> Now0, now |-> Now0, d |-> 0,
            dateOK |-> TRUE, pending |-> {}, after |-> "none"]
  /\ local = [f \in RemoteFiles |-> Absent]
  /\ downloaded = [f \in RemoteFiles |-> 0]
  /\ lastOp = NoOp

\* downloadGRIBFiles(dateStr, true) is called at some hour of the day
AcqStart ==
  /\ acq.pc = "idle"
  /\ acq.run < MaxAcqRuns
  /\ \E later \in 0..1, ok \in BOOLEAN :
       acq' = [acq EXCEPT !.pc = "rtClear", !.run = @ + 1, !.clock = @ + later,
                          !.dateOK = ok, !.after = "none"]
  /\ lastOp' = NoOp
  /\ UNCHANGED <<local, downloaded>>

\* the live stage first removes the files of the output directory; a remove
\* that fails is logged and the file stays
RtClear ==
  /\ acq.pc = "rtClear"
  /\ \E kept \in SUBSET {f \in RemoteFiles : local[f] # Absent} :
       local' = [f \in RemoteFiles |-> IF f \in kept THEN local[f] ELSE Absent]
  /\ acq' = [acq EXCEPT !.pc = "rtList"]
  /\ lastOp' = NoOp
  /\ UNCHANGED downloaded

\* fetchDirectoryListing of the live source; an error or an empty listing
\* ends the stage; otherwise the cutoff is computed from time.Now()
RtList ==
  /\ acq.pc = "rtList"
  /\ \E ok \in BOOLEAN, links \in SUBSET RtCatalogue :
       acq' = IF ok /\ links # {}
              THEN [acq EXCEPT !.pc = "rtLoop", !.pending = links, !.now = acq.clock]
              ELSE [acq EXCEPT !.pc = "arStart"]
  /\ lastOp' = NoOp
  /\ UNCHANGED <<local, downloaded>>

\* downloadAndExtractGzFile: the file is complete, or nothing was written
\* (request error, status, HTML, gzip header, create), or the copy broke off
Download(f, outcome) ==
  /\ local' = [local EXCEPT ![f] =
                 CASE outcome = "ok" -> "complete"
                   [] outcome = "copyFail" -> "partial"
                   [] OTHER -> @]
  /\ downloaded' = [downloaded EXCEPT ![f] =
                      IF outcome = "ok" /\ @ < MaxCounted THEN @ + 1 ELSE @]

DownloadOutcomes == {"ok", "noFile", "copyFail"}

\* the links still to be visited after link f: "continue" after a name that
\* does not parse and after a download that failed, as after any other link
RemainingLinksAbort(pending, f, failed) == IF failed THEN {} ELSE pending \ {f}
RemainingLinks(pending, f, failed) == pending \ {f}

\* one iteration of the loop over the links of a listing
Candidate(f, outside, after) ==
  /\ f \in acq.pending
  /\ \E outcome \in DownloadOutcomes :
       LET op == IF ~ParseOK(f) THEN "skipParse"
                 ELSE IF outside THEN "skipWindow"
                 ELSE IF AlreadyLocal(f) THEN "skipExists"
                 ELSE "get"
           failed == op = "skipParse" \/ (op = "get" /\ outcome # "ok")
           rest == RemainingLinks(acq.pending, f, failed)
       IN /\ acq' = IF rest = {} THEN [after EXCEPT !.pending = {}]
                    ELSE [acq EXCEPT !.pending = rest]
          /\ lastOp' = [file |-> f, op |-> op, now |-> acq.now]
          /\ IF op = "get" THEN Download(f, outcome)
             ELSE UNCHANGED <<local, downloaded>>

RtCandidate ==
  /\ acq.pc = "rtLoop"
  /\ \E f \in acq.pending :
       Candidate(f, OutsideRealtimeWindow(f.ts, acq.now), [acq EXCEPT !.pc = "arStart"])

\* the archive stage parses the date, then computes its band from time.Now()
ArStart ==
  /\ acq.pc = "arStart"
  /\ acq' = IF acq.dateOK
            THEN [acq EXCEPT !.pc = "arList", !.now = acq.clock, !.d = 0]
            ELSE [acq EXCEPT !.pc = "idle", !.after = OrchestratorAfter(StageReturn)]
  /\ lastOp' = NoOp
  /\ UNCHANGED <<local, downloaded>>

\* the loop over d = 0..DaysBack: the listing of the day, skipped when the
\* fetch fails or lists nothing
AfterDay(a) ==
  IF a.d < DaysBack THEN [a EXCEPT !.pc = "arList", !.d = @ + 1]
  ELSE [a EXCEPT !.pc = "idle", !.d = 0, !.after = OrchestratorAfter(StageReturn)]

ArList ==
  /\ acq.pc = "arList"
  /\ \E ok \in BOOLEAN,
        links \in SUBSET ArchiveDay(acq.clock \div HoursPerDay - acq.d) :
       acq' = IF ok /\ links # {}
              THEN [acq EXCEPT !.pc = "arLoop", !.pending = links]
              ELSE AfterDay(acq)
  /\ lastOp' = NoOp
  /\ UNCHANGED <<local, downloaded>>

ArCandidate ==
  /\ acq.pc = "arLoop"
  /\ \E f \in acq.pending :
       Candidate(f, OutsideArchiveWindow(f.ts, acq.now), AfterDay(acq))

AcqNext == AcqStart \/ RtClear \/ RtList \/ RtCandidate \/ ArStart \/ ArList \/ ArCandidate

(***************************************************************************)
(* Functions on strings, dates and files, each explored on its own         *)
(***************************************************************************)
\* Text is a sequence of one-character strings; the labels of the control
\* file and the month names stand as single elements.
Digits == << "0", "1", "2", "3", "4", "5", "6", "7", "8", "9" >>

IsDigit(c) == \E i \in 1..10 : Digits[i] = c
DigitVal(c) == (CHOOSE i \in 1..10 : Digits[i] = c) - 1

\* strconv.Itoa of a natural number
RECURSIVE Itoa(_)
Itoa(n) == IF n < 10 THEN << Digits[n + 1] >> ELSE Itoa(n \div 10) \o << Digits[(n % 10) + 1] >>

\* fmt "%02d" of a natural number
Pad2(n) == IF n < 10 THEN << "0" >> \o Itoa(n) ELSE Itoa(n)

RECURSIVE DigitsValue(_)
DigitsValue(s) ==
  IF s = << >> THEN 0 ELSE 10 * DigitsValue(SubSeq(s, 1, Len(s) - 1)) + DigitVal(s[Len(s)])

\* strconv.Atoi: an optional sign, then one or more decimal digits
Atoi(s) ==
  LET signed == s # << >> /\ s[1] \in {"+", "-"}
      body == IF signed THEN Tail(s) ELSE s
  IN IF body = << >> \/ \E i \in 1..Len(body) : ~IsDigit(body[i])
     THEN [ok |-> FALSE, val |-> 0]
     ELSE [ok |-> TRUE,
           val |-> IF signed /\ s[1] = "-" THEN 0 - DigitsValue(body) ELSE DigitsValue(body)]

\* strings.Split(s, sep) for a one-element separator
RECURSIVE Split(_, _)
Split(s, sep) ==
  IF \A i \in 1..Len(s) : s[i] # sep THEN << s >>
  ELSE LET i == CHOOSE k \in 1..Len(s) : s[k] = sep /\ \A j \in 1..(k - 1) : s[j] # sep
       IN << SubSeq(s, 1, i - 1) >> \o Split(SubSeq(s, i + 1, Len(s)), sep)

\* strings.Join(parts, sep)
RECURSIVE Join(_, _)
Join(parts, sep) ==
  IF parts = << >> THEN << >>
  ELSE IF Len(parts) = 1 THEN parts[1]
  ELSE parts[1] \o << sep >> \o Join(Tail(parts), sep)

\* strings.TrimSpace
IsSpace(c) == c \in {" ", "\t", "\r", "\n"}

RECURSIVE TrimLeft(_)
TrimLeft(s) == IF s # << >> /\ IsSpace(s[1]) THEN TrimLeft(Tail(s)) ELSE s

RECURSIVE TrimRight(_)
TrimRight(s) ==
  IF s # << >> /\ IsSpace(s[Len(s)]) THEN TrimRight(SubSeq(s, 1, Len(s) - 1)) ELSE s

TrimSpace(s) == TrimRight(TrimLeft(s))

\* strings.HasPrefix
HasPrefix(s, prefix) == Len(s) >= Len(prefix) /\ SubSeq(s, 1, Len(prefix)) = prefix

(***************************************************************************)
(* Rounding of the request's times of day                                  *)
(***************************************************************************)
\* longest time string explored
MaxTimeLen == 5

\* the characters time strings are made of: digits enough for 00..23 and
\* 00..59 and beyond, the separator, a sign and a letter
TimeAlphabet == {"0", "2", "3", "5", "9", ":", "-", "x"}

TimeStrings == UNION {[1..n -> TimeAlphabet] : n \in 0..MaxTimeLen}

\* fmt.Sprintf("%02d:00", hour)
HourString(hour) == Pad2(hour) \o << ":", "0", "0" >>

roundTimeDown(timeStr) ==
  IF timeStr = << >> THEN HourString(0)
  ELSE LET parts == Split(timeStr, ":")
       IN IF Len(parts) # 2 THEN HourString(0)
          ELSE LET hour == Atoi(parts[1])
               IN IF ~hour.ok \/ hour.val < 0 \/ hour.val > 23 THEN HourString(0)
                  ELSE HourString(hour.val)

\* the hour roundTimeUp returns for a parsed hour and minute
RoundedUpHourAlways(hour, minute) == IF hour + 1 > 23 THEN 23 ELSE hour + 1
RoundedUpHour(hour, minute) ==
  IF minute > 0 THEN (IF hour + 1 > 23 THEN 23 ELSE hour + 1) ELSE hour

roundTimeUp(timeStr) ==
  IF timeStr = << >> THEN HourString(23)
  ELSE LET parts == Split(timeStr, ":")
       IN IF Len(parts) # 2 THEN HourString(23)
          ELSE LET hour == Atoi(parts[1])
                   minute == Atoi(parts[2])
               IN IF ~hour.ok \/ hour.val < 0 \/ hour.val > 23 THEN HourString(23)
                  ELSE IF ~minute.ok \/ minute.val < 0 \/ minute.val > 59 THEN HourString(23)
                  ELSE HourString(RoundedUpHour(hour.val, minute.val))

RoundFn(fn, timeStr) == IF fn = "down" THEN roundTimeDown(timeStr) ELSE roundTimeUp(timeStr)

\* a time of day arrives with a request
RndInit ==
  \E t \in TimeStrings :
    rnd = [pc |-> "req", fn |-> "none", input |-> t, out |-> << >>, prev |-> << >>]

\* updateHistoricalControlFile rounds the start time down, the end time up
RoundRequest ==
  /\ rnd.pc = "req"
  /\ \E fn \in {"down", "up"} :
       rnd' = [rnd EXCEPT !.pc = "rounded", !.fn = fn, !.out = RoundFn(fn, rnd.input)]
  /\ UNCHANGED <<ctl, hreq, args, sms>>

\* the rounded time is sent again as the time of a request
RoundAgain ==
  /\ rnd.pc = "rounded"
  /\ rnd' = [rnd EXCEPT !.pc = "again", !.prev = rnd.out, !.out = RoundFn(rnd.fn, rnd.out)]
  /\ UNCHANGED <<ctl, hreq, args, sms>>

RndNext == RoundRequest \/ RoundAgain

(***************************************************************************)
(* Instants and their formats.  An instant is a number of minutes since    *)
(* 2020-01-01T00:00 UTC.                                                   *)
(***************************************************************************)
MonthNames ==
  << "January", "February", "March", "April", "May", "June", "July",
     "August", "September", "October", "November", "December" >>

IsLeap(y) == y % 4 = 0 /\ (y % 100 # 0 \/ y % 400 = 0)

DaysInMonth(y, m) ==
  IF m = 2 THEN (IF IsLeap(y) THEN 29 ELSE 28)
  ELSE IF m \in {4, 6, 9, 11} THEN 30 ELSE 31

\* the civil date d days after the first of month m of year y
RECURSIVE CivilFrom(_, _, _)
CivilFrom(d, y, m) ==
  IF d < DaysInMonth(y, m) THEN [year |-> y, month |-> m, day |-> d + 1]
  ELSE IF m = 12 THEN CivilFrom(d - DaysInMonth(y, m), y + 1, 1)
  ELSE CivilFrom(d - DaysInMonth(y, m), y, m + 1)

MinutesPerDay == MinutesPerHour * HoursPerDay

\* t.Year(), t.Month(), t.Day(), t.Hour(), t.Minute() of an instant in UTC
CivilOf(t) == CivilFrom(t \div MinutesPerDay, 2020, 1)
HourOfInstant(t) == (t \div MinutesPerHour) % HoursPerDay
MinuteOfInstant(t) == t % MinutesPerHour

\* time.Date(y, m, d, h, mi, 0, 0, time.UTC)
RECURSIVE DaysBefore(_, _)
DaysBefore(y, m) ==
  IF y = 2020 /\ m = 1 THEN 0
  ELSE IF m = 1 THEN DaysBefore(y - 1, 12) + DaysInMonth(y - 1, 12)
  ELSE DaysBefore(y, m - 1) + DaysInMonth(y, m - 1)

DateUTC(y, m, d, h, mi) ==
  (DaysBefore(y, m) + d - 1) * MinutesPerDay + h * MinutesPerHour + mi

\* t.Truncate(time.Hour) and t.Add(h * time.Hour)
TruncateHour(t) == t - (t % MinutesPerHour)
AddHours(t, h) == t + h * MinutesPerHour

\* t.Format("15:04"), t.Format("15"), t.Format("2 January 2006"),
\* t.Format("20060102")
FormatHHMM(t) == Pad2(HourOfInstant(t)) \o << ":" >> \o Pad2(MinuteOfInstant(t))
FormatHH(t) == Pad2(HourOfInstant(t))
FormatLongDate(t) ==
  LET c == CivilOf(t)
  IN Itoa(c.day) \o << " ", MonthNames[c.month], " " >> \o Itoa(c.year)
FormatYYYYMMDD(t) ==
  LET c == CivilOf(t) IN Itoa(c.year) \o Pad2(c.month) \o Pad2(c.day)

(***************************************************************************)
(* The control file and its two patches                                    *)
(***************************************************************************)
\* lines the control file may be edited to hold
MaxCtlLines == 5

\* days of wall-clock time explored from each starting day
CtlDays == 1

Labels == {"Start Date:", "End Date:", "Start Time:", "End Time:"}

\* lines of a control file: a labelled line as the patch writes it, labelled
\* lines without indent, with a tab and a carriage return, without a value,
\* a label in the middle of a line, an empty line, any other line
CtlLineChoices ==
  { << " ", " ", " ", " ", " ", "Start Date:", " ", "1", " ", "January", " ", "2", "0", "0", "0" >>,
    << "End Date:", "x" >>,
    << "\t", "Start Time:", " ", "0", "0", ":", "0", "0", "\r" >>,
    << " ", "End Time:" >>,
    << " ", "Description:", " ", "Start Date:", " ", "x" >>,
    << >>,
    << " ", "End" >> }

\* fmt.Sprintf("     <label> %s", value)
LabelledLineNoIndent(label, value) == << label, " " >> \o value
LabelledLine(label, value) == << " ", " ", " ", " ", " ", label, " " >> \o value

\* one pass of the switch over a line
PatchLineTrimmedDefault(line, vals) ==
  LET trimmedLine == TrimSpace(line)
  IN IF trimmedLine # << >> /\ trimmedLine[1] \in Labels
     THEN LabelledLine(trimmedLine[1], vals[trimmedLine[1]])
     ELSE trimmedLine
PatchLineUntrimmed(line, vals) ==
  IF line # << >> /\ line[1] \in Labels
  THEN LabelledLine(line[1], vals[line[1]])
  ELSE line
PatchLine(line, vals) ==
  LET trimmedLine == TrimSpace(line)
  IN CASE HasPrefix(trimmedLine, << "Start Date:" >>) -> LabelledLine("Start Date:", vals["Start Date:"])
       [] HasPrefix(trimmedLine, << "End Date:" >>) -> LabelledLine("End Date:", vals["End Date:"])
       [] HasPrefix(trimmedLine, << "Start Time:" >>) -> LabelledLine("Start Time:", vals["Start Time:"])
       [] HasPrefix(trimmedLine, << "End Time:" >>) -> LabelledLine("End Time:", vals["End Time:"])
       [] OTHER -> line

\* strings.Split(content, "\n"), the switch on every line, strings.Join
PatchContentAddMissing(content, vals) ==
  LET lines == Split(content, "\n")
      missing == {l \in Labels : \A i \in 1..Len(lines) : ~HasPrefix(TrimSpace(lines[i]), << l >>)}
      patched == Join([i \in 1..Len(lines) |-> PatchLine(lines[i], vals)], "\n")
  IN IF "End Time:" \in missing
     THEN patched \o << "\n" >> \o LabelledLine("End Time:", vals["End Time:"])
     ELSE patched
PatchContent(content, vals) ==
  LET lines == Split(content, "\n")
  IN Join([i \in 1..Len(lines) |-> PatchLine(lines[i], vals)], "\n")

\* updateControlFile: the values computed from time.Now().UTC()
StartDateTimeTwoDays(nowUTC) == AddHours(nowUTC, 0 - 48)
StartDateTime(nowUTC) == AddHours(nowUTC, 0 - 47)
EndDateTime(nowUTC) == AddHours(nowUTC, 12)

RealTimeValues(t) ==
  LET nowUTC == TruncateHour(t)
  IN [l \in Labels |->
        CASE l = "Start Date:" -> FormatLongDate(StartDateTime(nowUTC))
          [] l = "Start Time:" -> FormatHHMM(StartDateTime(nowUTC))
          [] l = "End Date:" -> FormatLongDate(EndDateTime(nowUTC))
          [] OTHER -> FormatHHMM(EndDateTime(nowUTC))]

\* updateHistoricalControlFile: the dates of the request, its times rounded
HistoricalValues(req) ==
  [l \in Labels |->
     CASE l = "Start Date:" -> FormatLongDate(req.startDate)
       [] l = "Start Time:" -> roundTimeDown(req.startTime)
       [] l = "End Date:" -> FormatLongDate(req.endDate)
       [] OTHER -> roundTimeUp(req.endTime)]

\* no patch has written yet
NoValues == [l \in Labels |-> << >>]

CtlIdle ==
  ctl = [pc |-> "idle", content |-> << >>, before |-> << >>,
         now |-> DateUTC(2025, 6, 1, 10, 0),
         kind |-> "none", res |-> "none", n |-> 0, vals |-> NoValues]

\* the file is written by hand or by the modelling tool, line after line
CtlEdit ==
  /\ ctl.pc \in {"idle", "edit"}
  /\ ctl.n < MaxCtlLines
  /\ \E line \in CtlLineChoices :
       ctl' = [ctl EXCEPT !.pc = "edit", !.n = @ + 1,
                          !.content = IF ctl.n = 0 THEN line ELSE @ \o << "\n" >> \o line]
  /\ UNCHANGED <<rnd, hreq, args, sms>>

\* os.ReadFile fails: nothing is written; os.WriteFile fails: the file is as
\* it was or cut short; otherwise the file holds the patched content
PatchedFrom(from, to, vals, kind) ==
  /\ ctl.pc = from
  /\ \E res \in {"ok", "readErr", "writeErr"} :
     \E cut \in (IF res = "writeErr" THEN BOOLEAN ELSE {FALSE}) :
       ctl' = [ctl EXCEPT !.pc = to, !.kind = kind, !.res = res,
                          !.before = ctl.content,
                          !.content = IF res = "ok" THEN PatchContent(ctl.content, vals)
                                      ELSE IF cut THEN << >> ELSE ctl.content,
                          !.vals = IF res = "ok" THEN vals ELSE @]
  /\ UNCHANGED <<rnd, hreq, args, sms>>

Patched(vals, kind) == PatchedFrom("edit", "patched", vals, kind)

\* the next patch of a file that a patch has written
PatchedAgain(vals, kind) ==
  ctl.res = "ok" /\ PatchedFrom("patched", "patchedAgain", vals, kind)

updateControlFile == Patched(RealTimeValues(ctl.now), "realtime")

\* requests that reach the historical patch: dates already validated, times
\* as the caller sent them
HistoricalPatchRequests ==
  { [startDate |-> DateUTC(2021, 1, 1, 0, 0), endDate |-> DateUTC(2021, 1, 5, 0, 0),
     startTime |-> << >>, endTime |-> << "0", "9", ":", "5", "9" >>],
    [startDate |-> DateUTC(2024, 2, 28, 0, 0), endDate |-> DateUTC(2024, 3, 1, 0, 0),
     startTime |-> << "2", "3", ":", "5", "9" >>, endTime |-> << "x" >>] }

updateHistoricalControlFile ==
  \E req \in HistoricalPatchRequests : Patched(HistoricalValues(req), "historical")

\* the patches of the next run, within the same hour
updateControlFileAgain == PatchedAgain(RealTimeValues(ctl.now), "realtime")

updateHistoricalControlFileAgain ==
  \E req \in HistoricalPatchRequests : PatchedAgain(HistoricalValues(req), "historical")

CtlNext == CtlEdit \/ updateControlFile \/ updateHistoricalControlFile

\* the control file of the real-time model as deployed, at some minute of
\* the days after a month end, a year end and a leap day
StockControlFile ==
  Join(<< << " ", "End" >>,
          << " ", " ", " ", " ", " ", "Start Date:", " ", "1", " ", "January", " ", "2", "0", "0", "0" >>,
          << "\t", "Start Time:", " ", "0", "0", ":", "0", "0", "\r" >>,
          << "End Date:", "x" >>,
          << " ", "End Time:" >> >>, "\n")

CtlInstants ==
  { first + day * MinutesPerDay + h * MinutesPerHour + mi :
      first \in {DateUTC(2025, 6, 1, 0, 0), DateUTC(2025, 1, 1, 0, 0), DateUTC(2024, 3, 1, 0, 0)},
      day \in 0..(CtlDays - 1), h \in 0..(HoursPerDay - 1), mi \in {0, 59} }

CtlTimeInit ==
  \E t \in CtlInstants :
    ctl = [pc |-> "edit", content |-> StockControlFile, before |-> << >>, now |-> t,
           kind |-> "none", res |-> "none", n |-> Len(Split(StockControlFile, "\n")),
           vals |-> NoValues]


\* control files written by hand, two lines long: labels in the case of the
\* patch, in lower case and in upper case, indented or not
CaseLineChoices ==
  { << "Start Date:", " ", "x" >>,
    << " ", " ", "start date:", " ", "x" >>,
    << "\t", "END TIME:", " ", "x" >>,
    << " ", "End Time:", " ", "x" >>,
    << "end date:" >>,
    << "\t", " ", "End Date:", " ", "x" >>,
    << " ", "Start Time:" >>,
    << " ", "Description:", " ", "x" >> }

CtlCaseInit ==
  \E first \in CaseLineChoices, second \in CaseLineChoices :
    ctl = [pc |-> "edit", content |-> first \o << "\n" >> \o second, before |-> << >>,
           now |-> DateUTC(2025, 6, 1, 10, 0), kind |-> "none", res |-> "none", n |-> 2,
           vals |-> NoValues]

RndIdle == rnd = [pc |-> "idle", fn |-> "none", input |-> << >>, out |-> << >>, prev |-> << >>]

(***************************************************************************)
(* A historical request with its dates                                     *)
(***************************************************************************)
\* time.Parse("20060102", s): eight digits, a month and a day that exist
ParseYYYYMMDD(s) ==
  IF Len(s) # 8 \/ \E i \in 1..Len(s) : ~IsDigit(s[i]) THEN [ok |-> FALSE, t |-> 0]
  ELSE LET y == DigitsValue(SubSeq(s, 1, 4))
           m == DigitsValue(SubSeq(s, 5, 6))
           dd == DigitsValue(SubSeq(s, 7, 8))
       IN IF m < 1 \/ m > 12 THEN [ok |-> FALSE, t |-> 0]
          ELSE IF dd < 1 \/ dd > DaysInMonth(y, m) THEN [ok |-> FALSE, t |-> 0]
          ELSE [ok |-> TRUE, t |-> DateUTC(y, m, dd, 0, 0)]

\* minDate := time.Date(2021, 1, 1, 0, 0, 0, 0, time.UTC)
minDate == DateUTC(2021, 1, 1, 0, 0)

\* daysDifference := int(endDate.Sub(startDate).Hours() / 24); > 4 is too long
RangeTooLongOffByOne(startDate, endDate) == (endDate - startDate) \div MinutesPerDay > 5
RangeTooLong(startDate, endDate) == (endDate - startDate) \div MinutesPerDay > 4

\* the checks of runHMSPipelineHistorical in their order
HistRequestClass(start, end, maxDate) ==
  LET startDate == ParseYYYYMMDD(start)
      endDate == ParseYYYYMMDD(end)
  IN IF ~startDate.ok THEN "badStart"
     ELSE IF ~endDate.ok THEN "badEnd"
     ELSE IF startDate.t < minDate \/ endDate.t < minDate THEN "before2021"
     ELSE IF startDate.t > maxDate \/ endDate.t > maxDate THEN "future"
     ELSE IF startDate.t > endDate.t THEN "startAfterEnd"
     ELSE IF RangeTooLong(startDate.t, endDate.t) THEN "tooLong"
     ELSE "ok"

\* dates a caller may send: around the first day of 2021, five days on,
\* around today, and strings that are no dates
HistDateStrings ==
  { << "2", "0", "2", "0", "1", "2", "3", "1" >>,
    << "2", "0", "2", "1", "0", "1", "0", "1" >>,
    << "2", "0", "2", "1", "0", "1", "0", "2" >>,
    << "2", "0", "2", "1", "0", "1", "0", "5" >>,
    << "2", "0", "2", "1", "0", "1", "0", "6" >>,
    << "2", "0", "2", "1", "0", "1", "0", "7" >>,
    << "2", "0", "2", "1", "0", "1", "0", "8" >>,
    << "2", "0", "2", "1", "0", "2", "3", "0" >>,
    << "2", "0", "2", "1", "1", "3", "0", "1" >>,
    << "2", "0", "2", "1", "-", "1", "-", "1" >>,
    << "2", "0", "2", "1", "0", "1", "0" >>,
    << >> }

\* time.Now() when the run validates: the start or the middle of 2021-01-07
HistNows == {DateUTC(2021, 1, 7, 0, 0), DateUTC(2021, 1, 7, 12, 0)}

HreqIdle ==
  hreq = [pc |-> "idle", start |-> << >>, end |-> << >>, now |-> 0, ack |-> 0]

\* POST /api/run-hms-pipeline-historical with its body: only empty dates are
\* answered 400; every other request is dispatched and answered 202
handleHistoricalRequest(r) ==
  /\ r \in HttpRuns
  /\ hreq.pc = "idle"
  /\ HandlerGuard(r)
  /\ \E start \in HistDateStrings, end \in HistDateStrings, t \in HistNows :
       IF start = << >> \/ end = << >>
       THEN /\ hreq' = [pc |-> "answered", start |-> start, end |-> end, now |-> t, ack |-> 400]
            /\ UNCHANGED runs
       ELSE /\ hreq' = [pc |-> "answered", start |-> start, end |-> end, now |-> t, ack |-> 202]
            /\ runs' = [runs EXCEPT ![r] =
                          NewRun("historical", "http", TRUE, HistRequestClass(start, end, t))]
  /\ UNCHANGED <<sched, rolling, archiveCopy, ctl, rnd, args, sms>>

HistNext ==
  \E r \in HttpRuns :
    \/ handleHistoricalRequest(r)
    \/ (StepReturns(r) /\ UNCHANGED fnVars)
    \/ (DeadlineExceeded(r) /\ UNCHANGED fnVars)

(***************************************************************************)
(* The arguments of RunProcessingPipeline and their defaults               *)
(***************************************************************************)
\* days of wall-clock time explored
ArgsDays == 1

\* time.Now().Format("20060102"): the date in the server's zone, the zone
\* being a whole number of hours from UTC
DefaultDate(t, zone) == FormatYYYYMMDD(AddHours(t, zone))

\* time.Now().UTC().Add(-1 * time.Hour).Format("15")
DefaultRunHourCurrent(t) == FormatHH(t)
DefaultRunHour(t) == FormatHH(AddHours(t, 0 - 1))

\* the checks at the head of downloadHRRRForecastGRIB
HRRRInputsValid(dateStr, runHour) ==
  /\ Len(dateStr) = 8
  /\ Len(runHour) = 2
  /\ Atoi(runHour).ok /\ Atoi(runHour).val >= 0 /\ Atoi(runHour).val <= 23

\* what a caller may send as date and run hour; the scheduler sends "" and ""
ArgDates == { << >>, << "2", "0", "2", "5", "0", "6", "0", "1" >>, << "x" >> }
ArgRunHours == { << >>, << "0", "7" >>, << "7" >>, << "2", "4" >> }

ArgsInstants ==
  { DateUTC(2024, 12, 31, 0, 0) + day * MinutesPerDay + h * MinutesPerHour + mi :
      day \in 0..(ArgsDays - 1), h \in 0..(HoursPerDay - 1), mi \in {0, 59} }

ArgZones == {0 - 6, 0, 9}

ArgsIdle ==
  args = [pc |-> "idle", optionalDate |-> << >>, optionalRunHour |-> << >>, now |-> 0,
          zone |-> 0, dateToUse |-> << >>, runHourToUse |-> << >>,
          step1Date |-> << >>, step2Date |-> << >>, step2RunHour |-> << >>, valid |-> FALSE]

\* RunProcessingPipeline is called at some minute, in some zone
ArgsInit ==
  \E date \in ArgDates, hour \in ArgRunHours, t \in ArgsInstants, zone \in ArgZones :
    args = [pc |-> "called", optionalDate |-> date, optionalRunHour |-> hour, now |-> t,
            zone |-> zone, dateToUse |-> << >>, runHourToUse |-> << >>,
            step1Date |-> << >>, step2Date |-> << >>, step2RunHour |-> << >>, valid |-> FALSE]

\* the head of RunProcessingPipeline: dateToUse and runHourToUse
ArgsDefaults ==
  /\ args.pc = "called"
  /\ args' = [args EXCEPT
       !.pc = "defaulted",
       !.dateToUse = IF args.optionalDate = << >> THEN DefaultDate(args.now, args.zone)
                     ELSE args.optionalDate,
       !.runHourToUse = IF args.optionalRunHour = << >> THEN DefaultRunHour(args.now)
                        ELSE args.optionalRunHour]
  /\ UNCHANGED <<ctl, rnd, hreq, sms>>

\* downloadGRIBFiles(dateToUse, true)
ArgsStep1 ==
  /\ args.pc = "defaulted"
  /\ args' = [args EXCEPT !.pc = "step1", !.step1Date = args.dateToUse]
  /\ UNCHANGED <<ctl, rnd, hreq, sms>>

\* downloadHRRRForecastGRIB(dateToUse, runHourToUse)
ArgsStep2 ==
  /\ args.pc = "step1"
  /\ args' = [args EXCEPT !.pc = "step2", !.step2Date = args.dateToUse,
                          !.step2RunHour = args.runHourToUse,
                          !.valid = HRRRInputsValid(args.dateToUse, args.runHourToUse)]
  /\ UNCHANGED <<ctl, rnd, hreq, sms>>

ArgsNext == ArgsDefaults \/ ArgsStep1 \/ ArgsStep2

(***************************************************************************)
(* SendSMS                                                                 *)
(***************************************************************************)
TwilioVars == {"TWILIO_ACCOUNT_SID", "TWILIO_AUTH_TOKEN", "TWILIO_FROM_NUMBER"}

\* os.Getenv: the value, "" for a variable that is unset
Getenv(env, name) == IF env[name] = "unset" THEN "" ELSE env[name]

\* accountSid == "" || authToken == "" || fromNumber == ""
MissingAll(env) == \A v \in TwilioVars : Getenv(env, v) = ""
Missing(env) == \E v \in TwilioVars : Getenv(env, v) = ""

SmsIdle ==
  sms = [env |-> [v \in TwilioVars |-> "unset"], result |-> "none", sent |-> FALSE,
         submitted |-> 0]

\* os.Setenv and os.Unsetenv before a call
SmsSetenv ==
  /\ \E v \in TwilioVars, val \in {"unset", "", "value"} :
       /\ sms.env[v] # val
       /\ sms' = [sms EXCEPT !.env[v] = val, !.result = "none", !.sent = FALSE]
  /\ UNCHANGED <<ctl, rnd, hreq, args>>

\* SendSMS(ctx, to, body): the provider fails the call, reports the status
\* "failed", or takes the message
SendSMS ==
  /\ IF Missing(sms.env)
     THEN sms' = [sms EXCEPT !.result = "missing required Twilio environment variables",
                             !.sent = FALSE]
     ELSE \E outcome \in {"failed to send SMS", "SMS failed with status", "nil"} :
            sms' = [sms EXCEPT !.result = outcome, !.sent = TRUE,
                               !.submitted = IF @ < MaxCounted THEN @ + 1 ELSE @]
  /\ UNCHANGED <<ctl, rnd, hreq, args>>

SmsNext == SmsSetenv \/ SendSMS

(***************************************************************************)
(* Batch scripts: the path of a script and its execution                   *)
(***************************************************************************)
\* longest stem of a script name
MaxStemLen == 2

\* strings.HasSuffix, strings.TrimSuffix
HasSuffix(s, suffix) ==
  Len(s) >= Len(suffix) /\ SubSeq(s, Len(s) - Len(suffix) + 1, Len(s)) = suffix
TrimSuffix(s, suffix) ==
  IF HasSuffix(s, suffix) THEN SubSeq(s, 1, Len(s) - Len(suffix)) ELSE s

DotBat == << ".", "b", "a", "t" >>
DotSh == << ".", "s", "h" >>

\* runtime.GOOS
GOOSValues == {"windows", "linux", "darwin"}

\* os.PathSeparator; a volume name stands as the single element "C:"
Separator(goos) == IF goos = "windows" THEN "\\" ELSE "/"
VolumeName(goos, path) ==
  IF goos = "windows" /\ path # << >> /\ path[1] = "C:" THEN << "C:" >> ELSE << >>

\* filepath.Clean on the elements of a path: empty and "." elements are
\* dropped, ".." takes the element before it away
RECURSIVE CleanElements(_, _, _)
CleanElements(elems, out, rooted) ==
  IF elems = << >> THEN out
  ELSE LET e == Head(elems)
           rest == Tail(elems)
       IN IF e = << >> \/ e = << "." >> THEN CleanElements(rest, out, rooted)
          ELSE IF e = << ".", "." >>
               THEN IF out # << >> /\ out[Len(out)] # << ".", "." >>
                    THEN CleanElements(rest, SubSeq(out, 1, Len(out) - 1), rooted)
                    ELSE IF rooted THEN CleanElements(rest, out, rooted)
                    ELSE CleanElements(rest, Append(out, e), rooted)
               ELSE CleanElements(rest, Append(out, e), rooted)

\* filepath.Clean
Clean(goos, path) ==
  LET vol == VolumeName(goos, path)
      body == SubSeq(path, Len(vol) + 1, Len(path))
      rooted == body # << >> /\ body[1] = "/"
      elems == CleanElements(Split(body, "/"), << >>, rooted)
      out == (IF rooted THEN << Separator(goos) >> ELSE << >>) \o Join(elems, Separator(goos))
  IN IF out = << >> THEN vol \o << "." >> ELSE vol \o out

\* filepath.Join of a directory and a name
PathJoin(goos, dir, name) ==
  IF dir = << >> /\ name = << >> THEN << >>
  ELSE IF dir = << >> THEN Clean(goos, name)
  ELSE IF name = << >> THEN Clean(goos, dir)
  ELSE Clean(goos, dir \o << "/" >> \o name)

\* filepath.IsAbs
IsAbs(goos, path) ==
  IF goos = "windows" THEN Len(path) >= 2 /\ path[1] = "C:" /\ path[2] \in {"/", "\\"}
  ELSE path # << >> /\ path[1] = "/"

\* os.Getwd
WorkingDir(goos) == IF goos = "windows" THEN << "C:", "/", "w" >> ELSE << "/", "w" >>

\* filepath.Abs, when the working directory can be read
Abs(goos, path) ==
  IF IsAbs(goos, path) THEN Clean(goos, path) ELSE PathJoin(goos, WorkingDir(goos), path)

\* AppConfig.Jython.BatchScriptsDir, or AppConfig.Paths.HMSScriptsDir with
\* "batchScripts": as configured, absolute or relative
ScriptDirs(goos, getter) ==
  LET last == IF getter = "GetJythonBatchScriptPath" THEN << "j" >>
              ELSE << "h", "/", "b" >>
  IN {last, (IF goos = "windows" THEN << "C:", "/" >> ELSE << "/" >>) \o last}

\* the name of the script with its extension adjusted for the platform
AdjustedScriptNameKept(goos, scriptName) == scriptName
AdjustedScriptName(goos, scriptName) ==
  IF HasSuffix(scriptName, DotBat) /\ goos # "windows"
  THEN TrimSuffix(scriptName, DotBat) \o DotSh
  ELSE scriptName

\* GetJythonBatchScriptPath, GetHMSBatchScriptPath
GetBatchScriptPath(goos, dir, scriptName) ==
  PathJoin(goos, dir, AdjustedScriptName(goos, scriptName))

\* the extension executeBatchFile expects
ExpectedExtension(goos) == IF goos = "windows" THEN DotBat ELSE DotSh

ExtensionError(goos) ==
  IF goos = "windows" THEN "on Windows, expected .bat file" ELSE "on Linux/Unix, expected .sh file"

StemAlphabet == {"a", ".", "/"}
Stems == UNION {[1..n -> StemAlphabet] : n \in 0..MaxStemLen}
Extensions == {DotBat, DotSh, << ".", "B", "A", "T" >>, DotBat \o << "/" >>,
               DotBat \o DotSh, << >>}
ScriptNames == {stem \o ext : stem \in Stems, ext \in Extensions}

BatIdle ==
  bat = [pc |-> "idle", goos |-> "linux", name |-> << >>, path |-> << >>,
         err |-> "none", spawned |-> FALSE]

\* a step of a pipeline asks for the path of its script
ResolveScriptPath ==
  /\ bat.pc = "idle"
  /\ \E goos \in GOOSValues, getter \in {"GetJythonBatchScriptPath", "GetHMSBatchScriptPath"},
        scriptName \in ScriptNames :
       \E dir \in ScriptDirs(goos, getter) :
         bat' = [bat EXCEPT !.pc = "resolved", !.goos = goos, !.name = scriptName,
                            !.path = GetBatchScriptPath(goos, dir, scriptName)]

\* executeBatchFile(ctx, batchPath): the absolute path, the check of the
\* extension, then the process with its outcome
executeBatchFile ==
  /\ bat.pc = "resolved"
  /\ \/ /\ ~IsAbs(bat.goos, bat.path)
        /\ bat' = [bat EXCEPT !.pc = "done", !.err = "failed to get absolute path"]
     \/ /\ ~HasSuffix(Abs(bat.goos, bat.path), ExpectedExtension(bat.goos))
        /\ bat' = [bat EXCEPT !.pc = "done", !.err = ExtensionError(bat.goos)]
     \/ /\ HasSuffix(Abs(bat.goos, bat.path), ExpectedExtension(bat.goos))
        /\ \E e \in {"nil", "failed to execute script"} :
             bat' = [bat EXCEPT !.pc = "done", !.err = e, !.spawned = TRUE]

BatNext == (ResolveScriptPath \/ executeBatchFile) /\ UNCHANGED <<hrrr, dl>>

(***************************************************************************)
(* The forecast acquisition: downloadHRRRForecastGRIB                      *)
(***************************************************************************)
FirstForecastHour == 2
LastForecastHour == 12

\* what becomes of one forecast hour: the file is there already, http.Get
\* fails, the server answers 404 or another status, os.Create or io.Copy
\* fails, or the file is saved
HourOutcomes == {"exists", "netError", "notFound", "badStatus", "createFail", "copyFail", "saved"}

\* "continue" or "break" after a forecast hour
LoopBreaks(outcome) == outcome \in {"createFail", "copyFail"}

\* downloadedCount++
Counted(outcome) == outcome \in {"exists", "saved"}

HrrrIdle ==
  hrrr = [pc |-> "idle", fh |-> 0, attempted |-> {}, downloadedCount |-> 0,
          last |-> "none", ret |-> "none"]

\* the call with a date and a run hour that pass the checks, the output
\* directory created
HrrrStart ==
  /\ hrrr.pc = "idle"
  /\ \E mkdirOK \in BOOLEAN :
       hrrr' = IF mkdirOK
               THEN [hrrr EXCEPT !.pc = "loop", !.fh = FirstForecastHour]
               ELSE [hrrr EXCEPT !.pc = "returned",
                                 !.ret = "failed to create output directory"]
  /\ UNCHANGED <<bat, dl>>

\* one turn of "for fh := 2; fh <= 12; fh++"
HrrrHour ==
  /\ hrrr.pc = "loop"
  /\ \E outcome \in HourOutcomes :
       hrrr' = [hrrr EXCEPT
                  !.attempted = @ \cup {hrrr.fh},
                  !.last = outcome,
                  !.downloadedCount = IF Counted(outcome) THEN @ + 1 ELSE @,
                  !.fh = IF LoopBreaks(outcome) THEN @ ELSE @ + 1,
                  !.pc = IF LoopBreaks(outcome) \/ hrrr.fh = LastForecastHour
                         THEN "summary" ELSE "loop"]
  /\ UNCHANGED <<bat, dl>>

\* the count is logged, the stage returns nil
HrrrReturn ==
  /\ hrrr.pc = "summary"
  /\ hrrr' = [hrrr EXCEPT !.pc = "returned", !.ret = "nil"]
  /\ UNCHANGED <<bat, dl>>

HrrrNext == HrrrStart \/ HrrrHour \/ HrrrReturn

(***************************************************************************)
(* One download: downloadAndExtractGzFile(url, destPath)                   *)
(***************************************************************************)
\* the links of a listing: a grid file, plain or gzipped; a path is the
\* directory or base URL followed by the link, its parts standing as elements
DlLinks == {<< "f", ".grib2" >>, << "f", ".grib2", ".gz" >>}
DlPaths == {<< "dir/" >> \o link : link \in DlLinks}

\* resp.StatusCode and the Content-Type header, as lists of their parts
DlStatuses == {200, 404, 500}
DlContentTypes == {<< >>, << "application/octet-stream" >>, << "text/html" >>,
                   << "text/html", "; charset=utf-8" >>}

\* strings.Contains(contentType, "text/html")
ContainsHTML(contentType) == \E i \in 1..Len(contentType) : contentType[i] = "text/html"

\* the two checks made on the response before anything is written
ResponseErrorStatusOnly(status, contentType) ==
  IF status # 200 THEN "server returned status" ELSE "nil"
ResponseError(status, contentType) ==
  IF status # 200 THEN "server returned status"
  ELSE IF ContainsHTML(contentType) THEN "received HTML instead of GRIB file"
  ELSE "nil"

DlIdle ==
  dl = [pc |-> "idle", link |-> << >>, status |-> 0, contentType |-> << >>,
        before |-> [p \in DlPaths |-> "absent"], files |-> [p \in DlPaths |-> "absent"],
        err |-> "none"]

\* the call, with the files that are in the directory at that time
DlCall ==
  /\ dl.pc = "idle"
  /\ \E link \in DlLinks, there \in [DlPaths -> {"absent", "old"}] :
       dl' = [dl EXCEPT !.pc = "request", !.link = link, !.before = there,
                        !.files = there]
  /\ UNCHANGED <<bat, hrrr>>

\* os.MkdirAll of the directory, then http.Get
DlRequest ==
  /\ dl.pc = "request"
  /\ \/ \E e \in {"failed to create directory", "failed to download file"} :
          dl' = [dl EXCEPT !.pc = "returned", !.err = e]
     \/ \E status \in DlStatuses, contentType \in DlContentTypes :
          dl' = [dl EXCEPT !.pc = "verify", !.status = status,
                           !.contentType = contentType]
  /\ UNCHANGED <<bat, hrrr>>

\* the status and the content type of the response
DlVerify ==
  /\ dl.pc = "verify"
  /\ dl' = IF ResponseError(dl.status, dl.contentType) # "nil"
           THEN [dl EXCEPT !.pc = "returned",
                           !.err = ResponseError(dl.status, dl.contentType)]
           ELSE [dl EXCEPT !.pc = "write"]
  /\ UNCHANGED <<bat, hrrr>>

\* the file written: through gzip.NewReader to the path without ".gz" for a
\* gzipped URL, as it is to destPath otherwise; os.Create empties a file
\* that exists, a copy that breaks off leaves what it wrote
DlWrite ==
  /\ dl.pc = "write"
  /\ LET url == << "base/" >> \o dl.link
         destPath == << "dir/" >> \o dl.link
         isGzipped == HasSuffix(url, << ".gz" >>)
         finalPath == IF isGzipped THEN TrimSuffix(destPath, << ".gz" >>) ELSE destPath
     IN \/ /\ isGzipped
           /\ dl' = [dl EXCEPT !.pc = "returned", !.err = "failed to create gzip reader"]
        \/ dl' = [dl EXCEPT !.pc = "returned", !.err = "failed to create output file"]
        \/ dl' = [dl EXCEPT !.pc = "returned", !.files[finalPath] = "partial",
                            !.err = IF isGzipped THEN "failed to extract file"
                                    ELSE "failed to save file"]
        \/ dl' = [dl EXCEPT !.pc = "returned", !.files[finalPath] = "complete",
                            !.err = "nil"]
  /\ UNCHANGED <<bat, hrrr>>

DlNext == DlCall \/ DlRequest \/ DlVerify \/ DlWrite

(***************************************************************************)
(* The scheduler's clock in the zone of the host: now is an instant, in    *)
(* slices since 00:00 UTC of day 0; its hour and minute are read on the    *)
(* wall clock of the zone, and time.Date turns wall-clock fields back into *)
(* an instant.                                                             *)
(***************************************************************************)
\* zones: offsets from UTC in minutes before and after one transition, and
\* the instant of the transition.  UTC has none; America/Chicago goes from
\* CDT to CST at 07:00 UTC and from CST to CDT at 08:00 UTC; Europe/Berlin
\* goes from CEST to CET at 01:00 UTC
Zones ==
  { [name |-> "UTC", before |-> 0, after |-> 0, at |-> TimeDate(1, 7, 0)],
    [name |-> "America/Chicago, autumn", before |-> 0 - 300, after |-> 0 - 360,
     at |-> TimeDate(1, 7, 0)],
    [name |-> "America/Chicago, spring", before |-> 0 - 360, after |-> 0 - 300,
     at |-> TimeDate(1, 8, 0)],
    [name |-> "Europe/Berlin, autumn", before |-> 120, after |-> 60,
     at |-> TimeDate(1, 1, 0)] }

\* Location.lookup(instant): the offset in effect and the span it is in effect
Lookup(zone, t) ==
  IF t < zone.at
  THEN [offset |-> zone.before * SlicesPerMinute, start |-> 0 - SlicesPerDay, end |-> zone.at]
  ELSE [offset |-> zone.after * SlicesPerMinute, start |-> zone.at, end |-> 3 * SlicesPerDay]

\* the wall clock of the zone at an instant
Wall(zone, t) == t + Lookup(zone, t).offset

\* time.Date(y, m, d, hour, min, 0, 0, loc): the fields are taken as UTC, the
\* offset found there is subtracted, and looked up again when the result
\* falls outside the span of that offset
ZonedDate(zone, day, hour, min) ==
  LET unix == TimeDate(day, hour, min)
      first == Lookup(zone, unix)
      utc == unix - first.offset
      offset == IF first.offset # 0 /\ (utc < first.start \/ utc >= first.end)
                THEN Lookup(zone, utc).offset
                ELSE first.offset
  IN unix - offset

\* nextRun as the loop computes it from now in the zone
ZonedNextRunAt(zone, t) ==
  LET wall == Wall(zone, t)
      atQuarter == ZonedDate(zone, DayOf(wall), HourOf(wall), TriggerMinute)
  IN IF MinuteOf(wall) >= TriggerMinute THEN atQuarter + SlicesPerHour ELSE atQuarter

\* hours of time explored on each side of a transition
ZoneHours == 2

ZoneIdle ==
  zclk = [pc |-> "idle", zone |-> CHOOSE z \in Zones : z.name = "UTC", now |-> 0, nextRun |-> 0]

\* the scheduler starts at some instant around the transition of its zone
ZoneInit ==
  \E z \in Zones, t \in 0..(2 * ZoneHours * SlicesPerHour - 1) :
    zclk = [pc |-> "loop", zone |-> z, now |-> z.at - ZoneHours * SlicesPerHour + t,
            nextRun |-> 0]

\* now := time.Now(); nextRun := ...; sleepDuration := nextRun.Sub(now)
ZonedComputeNextRun ==
  /\ zclk.pc = "loop"
  /\ zclk' = [zclk EXCEPT !.pc = "sleeping", !.nextRun = ZonedNextRunAt(zclk.zone, zclk.now)]

\* time.Sleep(sleepDuration) returns at once when the duration is not
\* positive, at nextRun otherwise; the tick follows and the loop starts over
ZonedSleep ==
  /\ zclk.pc = "sleeping"
  /\ LET wake == IF zclk.nextRun > zclk.now THEN zclk.nextRun ELSE zclk.now
     IN /\ wake < zclk.zone.at + ZoneHours * SlicesPerHour
        /\ \E work \in {0, 1} : zclk' = [zclk EXCEPT !.pc = "loop", !.now = wake + work]

ZoneNext == ZonedComputeNextRun \/ ZonedSleep

\* the files of the model directory are not followed
ArtIdle == unarchived = FALSE /\ interm = {}

ExtIdle == BatIdle /\ HrrrIdle /\ DlIdle /\ ArtIdle /\ ZoneIdle

\* nothing has been asked of the functions above
FnIdle == CtlIdle /\ RndIdle /\ HreqIdle /\ ArgsIdle /\ SmsIdle /\ ExtIdle

(***************************************************************************)
(* The system: scheduler, HTTP triggers and the runs they start            *)
(***************************************************************************)
SysInit ==
  /\ runs = [r \in RunIds |-> IdleRun]
  /\ sched = SchedLoop
  /\ rolling \in BOOLEAN
  /\ archiveCopy = "none"

\* nothing triggered, the rolling artifact not yet written
SysIdle ==
  /\ runs = [r \in RunIds |-> IdleRun]
  /\ sched = SchedLoop
  /\ rolling = FALSE
  /\ archiveCopy = "none"

SysNext ==
  \/ SchedulerStep
  \/ \E r \in RunIds :
       \/ handleRunHMSPipeline(r)
       \/ StepReturns(r)
       \/ DelayElapsed(r)
       \/ DeadlineExceeded(r)

Init == SysInit /\ ClockIdle /\ AcqIdle /\ FnIdle

Next == SysNext /\ UNCHANGED <<clockVars, acqVars, fnVars, extVars, artVars, zoneVars>>

Spec == Init /\ [][Next]_vars

(***************************************************************************)
(* The two HTTP-triggered pipelines on their own, scheduler not started    *)
(***************************************************************************)
RunsNext ==
  \E r \in HttpRuns :
    \/ handleRunHMSPipeline(r)
    \/ handleRunHMSPipelineHistorical(r)
    \/ StepReturns(r)
    \/ DelayElapsed(r)
    \/ DeadlineExceeded(r)

NextRuns == RunsNext /\ UNCHANGED <<clockVars, acqVars, fnVars, extVars, artVars, zoneVars>>

SpecRuns == Init /\ [][NextRuns]_vars

(***************************************************************************)
(* The scheduler's clock on its own, from every time of the day            *)
(***************************************************************************)
InitClock == SysIdle /\ ClockInit /\ AcqIdle /\ FnIdle

NextClock == ClockNext /\ UNCHANGED <<sysVars, acqVars, fnVars, extVars, artVars, zoneVars>>

SpecClock == InitClock /\ [][NextClock]_vars

(***************************************************************************)
(* Repeated acquisition runs on one output directory                       *)
(***************************************************************************)
InitAcq == SysIdle /\ ClockIdle /\ AcqIdle /\ FnIdle

NextAcq == AcqNext /\ UNCHANGED <<sysVars, clockVars, fnVars, extVars, artVars, zoneVars>>

SpecAcq == InitAcq /\ [][NextAcq]_vars

(***************************************************************************)
(* The rounding of request times on its own                                *)
(***************************************************************************)
InitRound == SysIdle /\ ClockIdle /\ AcqIdle /\ CtlIdle /\ RndInit /\ HreqIdle /\ ArgsIdle /\ SmsIdle /\ ExtIdle

NextRound == RndNext /\ UNCHANGED <<sysVars, clockVars, acqVars, extVars, artVars, zoneVars>>

SpecRound == InitRound /\ [][NextRound]_vars

(***************************************************************************)
(* The control file under edits and patches; the real-time patch over time *)
(***************************************************************************)
InitCtl == SysIdle /\ ClockIdle /\ AcqIdle /\ FnIdle

NextCtl == CtlNext /\ UNCHANGED <<sysVars, clockVars, acqVars, extVars, artVars, zoneVars>>

SpecCtl == InitCtl /\ [][NextCtl]_vars

InitCtlCase == SysIdle /\ ClockIdle /\ AcqIdle /\ CtlCaseInit /\ RndIdle /\ HreqIdle /\ ArgsIdle /\ SmsIdle /\ ExtIdle

NextCtlCase ==
  (updateControlFile \/ updateHistoricalControlFile
     \/ updateControlFileAgain \/ updateHistoricalControlFileAgain)
    /\ UNCHANGED <<sysVars, clockVars, acqVars, extVars, artVars, zoneVars>>

SpecCtlCase == InitCtlCase /\ [][NextCtlCase]_vars

InitCtlTime == SysIdle /\ ClockIdle /\ AcqIdle /\ CtlTimeInit /\ RndIdle /\ HreqIdle /\ ArgsIdle /\ SmsIdle /\ ExtIdle

NextCtlTime == updateControlFile /\ UNCHANGED <<sysVars, clockVars, acqVars, extVars, artVars, zoneVars>>

SpecCtlTime == InitCtlTime /\ [][NextCtlTime]_vars

(***************************************************************************)
(* One historical request from its arrival to the end of its run           *)
(***************************************************************************)
NextHist == HistNext /\ UNCHANGED <<clockVars, acqVars, extVars, artVars, zoneVars>>

SpecHist == InitAcq /\ [][NextHist]_vars

(***************************************************************************)
(* The defaults of RunProcessingPipeline over a day and three zones        *)
(***************************************************************************)
InitArgs == SysIdle /\ ClockIdle /\ AcqIdle /\ CtlIdle /\ RndIdle /\ HreqIdle /\ ArgsInit /\ SmsIdle /\ ExtIdle

NextArgs == ArgsNext /\ UNCHANGED <<sysVars, clockVars, acqVars, extVars, artVars, zoneVars>>

SpecArgs == InitArgs /\ [][NextArgs]_vars

(***************************************************************************)
(* SendSMS under changes of its environment                                *)
(***************************************************************************)
NextSms == SmsNext /\ UNCHANGED <<sysVars, clockVars, acqVars, extVars, artVars, zoneVars>>

SpecSms == InitAcq /\ [][NextSms]_vars

(***************************************************************************)
(* One batch script on each platform                                       *)
(***************************************************************************)
NextBat == BatNext /\ UNCHANGED <<sysVars, clockVars, acqVars, fnVars, artVars, zoneVars>>

SpecBat == InitAcq /\ [][NextBat]_vars

(***************************************************************************)
(* One forecast acquisition                                                *)
(***************************************************************************)
NextHrrr == HrrrNext /\ UNCHANGED <<sysVars, clockVars, acqVars, fnVars, artVars, zoneVars>>

SpecHrrr == InitAcq /\ [][NextHrrr]_vars

(***************************************************************************)
(* One download of a grid file                                             *)
(***************************************************************************)
NextDl == DlNext /\ UNCHANGED <<sysVars, clockVars, acqVars, fnVars, artVars, zoneVars>>

SpecDl == InitAcq /\ [][NextDl]_vars

(***************************************************************************)
(* The system with the content of the rolling artifact followed            *)
(***************************************************************************)
\* the simulation step of a real-time run returns without error: it has
\* written RainrealTime.dss
WritesRolling(r) ==
  /\ runs[r].variant = "realtime" /\ runs[r].pc = "call" /\ runs[r].step = finalStepNum
  /\ runs'[r].pc = "done"

\* io.Copy returned nil: the archive file holds what the artifact held
CopyCompleted == sched.pc = "copy" /\ sched'.pc = "delete"

\* does the artifact, after the step, hold content that is in no archive
\* file?  Not when it is gone or was just copied; it does once rewritten
UnarchivedAfter ==
  IF ~rolling' THEN FALSE
  ELSE IF CopyCompleted THEN FALSE
  ELSE IF \E r \in RunIds : WritesRolling(r) THEN TRUE
  ELSE unarchived

InitArchive ==
  /\ SysInit /\ ClockIdle /\ AcqIdle
  /\ CtlIdle /\ RndIdle /\ HreqIdle /\ ArgsIdle /\ SmsIdle
  /\ BatIdle /\ HrrrIdle /\ DlIdle
  /\ unarchived = rolling /\ interm = {} /\ ZoneIdle

NextArchive ==
  /\ SysNext
  /\ unarchived' = UnarchivedAfter
  /\ UNCHANGED <<clockVars, acqVars, fnVars, extVars, interm, zoneVars>>

SpecArchive == InitArchive /\ [][NextArchive]_vars

(***************************************************************************)
(* The system with the intermediate artifacts followed                     *)
(***************************************************************************)
\* the files of filesToDelete, in the order of the loop
filesToDelete ==
  << "HRR.dss", "RainfallRealTime.dss", "RainfallRealTimeAndForcast.dss",
     "RainfallRealTimePass1And2.dss", "RainfallRealTimePass2.dss" >>

\* the DSS file a script of the real-time run is told to write (the last of
\* its arguments) and the DSS files it is told to read
OutputOf(step) ==
  CASE StepName("realtime", step) = "Merge GRIB Files RealTime Pass 2" ->
         {"RainfallRealTimePass2.dss"}
    [] StepName("realtime", step) = "Combine DSS Records Pass1 Pass2" ->
         {"RainfallRealTimePass1And2.dss"}
    [] StepName("realtime", step) = "Combine DSS Records Realtime Pass1 Pass2 and HRR" ->
         {"RainfallRealTimeAndForcast.dss"}
    [] OTHER -> {}

InputsOf(step) ==
  CASE StepName("realtime", step) = "Combine DSS Records Pass1 Pass2" ->
         {"RainfallRealTime.dss", "RainfallRealTimePass2.dss"}
    [] StepName("realtime", step) = "Combine DSS Records Realtime Pass1 Pass2 and HRR" ->
         {"RainfallRealTimePass1And2.dss", "HRR.dss"}
    [] OTHER -> {}

\* a script of run r returns without error: its output file is on disk
IntermAfterStep(r) ==
  IF runs[r].variant = "realtime" /\ runs[r].pc = "call" /\ runs'[r].pc # "failed"
  THEN interm \cup OutputOf(runs[r].step)
  ELSE interm

\* os.Stat and os.Remove of the file the loop is at: only a file that is not
\* there is found missing, only one that is there can be removed or fail to be
ExtraOutcomePossible(outcome) ==
  LET present == filesToDelete[sched.idx + 1] \in interm
  IN CASE outcome = "missing" -> ~present
       [] outcome \in {"removeError", "removed"} -> present
       [] OTHER -> TRUE

IntermAfterExtra(outcome) ==
  IF outcome = "removed" THEN interm \ {filesToDelete[sched.idx + 1]} ELSE interm

NextInterm ==
  /\ \/ /\ \/ SchedSleep \/ SchedWake \/ SchedMkdir \/ SchedOpen \/ SchedCreate
           \/ SchedCopy \/ SchedDeleteOriginal \/ SchedTrigger \/ SchedPipelineReturns
        /\ interm' = interm
     \/ \E outcome \in ExtraOutcomes :
          /\ ExtraOutcomePossible(outcome)
          /\ SchedDeleteExtraFile(outcome)
          /\ interm' = IntermAfterExtra(outcome)
     \/ \E r \in RunIds :
          \/ handleRunHMSPipeline(r) /\ interm' = interm
          \/ StepReturns(r) /\ interm' = IntermAfterStep(r)
          \/ DelayElapsed(r) /\ interm' = interm
          \/ DeadlineExceeded(r) /\ interm' = interm
  /\ UNCHANGED <<clockVars, acqVars, fnVars, extVars, unarchived, zoneVars>>

SpecInterm == Init /\ [][NextInterm]_vars

(***************************************************************************)
(* The scheduler's clock around a change of the zone's offset              *)
(***************************************************************************)
InitZone ==
  /\ SysIdle /\ ClockIdle /\ AcqIdle
  /\ CtlIdle /\ RndIdle /\ HreqIdle /\ ArgsIdle /\ SmsIdle
  /\ BatIdle /\ HrrrIdle /\ DlIdle /\ ArtIdle /\ ZoneInit

NextZone == ZoneNext /\ UNCHANGED <<sysVars, clockVars, acqVars, fnVars, extVars, artVars>>

SpecZone == InitZone /\ [][NextZone]_vars

\* what the program's scheduling guarantees: the scheduler goroutine and the
\* goroutines of the runs take their own steps, timers fire, local file
\* operations return.  Nothing guarantees that a child process exits or that
\* an HTTP request completes, so the return of such a call is not fair.
LocalStepReturns(r) ==
  /\ runs[r].pc = "call"
  /\ StepKind(runs[r].variant, runs[r].step) = "fs"
  /\ StepReturns(r)

FairSpec ==
  /\ Spec
  /\ WF_sysVars(SchedulerStep)
  /\ \A r \in RunIds : WF_sysVars(DelayElapsed(r))
  /\ \A r \in RunIds : WF_sysVars(DeadlineExceeded(r))
  /\ \A r \in RunIds : WF_sysVars(LocalStepReturns(r))

(***************************************************************************)
(* Properties of the pipelines                                             *)
(***************************************************************************)
StepsOf(variant) == FirstStep(variant)..LastStep(variant)

\* the steps of a variant in declared order
DeclaredOrder(variant) ==
  [k \in 1..Cardinality(StepsOf(variant)) |-> FirstStep(variant) + k - 1]

\* C1: when a run has failed at step i, no step after i was executed in that
\* run and the returned error carries the name of step i.
C1_FailureAbortsAndNamesStep ==
  \A r \in RunIds :
    runs[r].pc = "failed" =>
      /\ \A k \in 1..Len(runs[r].executed) : runs[r].executed[k] <= runs[r].step
      /\ runs[r].err.stepName = StepName(runs[r].variant, runs[r].step)

\* C2: the steps a run has executed are a prefix of the declared order, each
\* once, the last of them being the step the run is at; a run that returned
\* success has executed the whole declared order.
C2_StepsInOrderOnce ==
  \A r \in RunIds :
    runs[r].pc # "idle" =>
      /\ Len(runs[r].executed) \in 1..Len(DeclaredOrder(runs[r].variant))
      /\ runs[r].executed = SubSeq(DeclaredOrder(runs[r].variant), 1, Len(runs[r].executed))
      /\ runs[r].executed[Len(runs[r].executed)] = runs[r].step
      /\ runs[r].pc = "done" => runs[r].executed = DeclaredOrder(runs[r].variant)

C2_Witness ==
  /\ \E r \in HttpRuns : runs[r].pc = "done" /\ runs[r].variant = "realtime"
                         /\ Len(runs[r].executed) = 9
  /\ \E r \in HttpRuns : runs[r].pc = "failed" /\ runs[r].variant = "historical"
                         /\ runs[r].step = 3

(***************************************************************************)
(* Properties of the scheduler and of the triggers                         *)
(***************************************************************************)
TickInProgress == sched.pc \notin {"loop", "sleeping"}

\* C4: every tick is eventually followed by the scheduler sleeping until the
\* next trigger time, whatever happened inside the tick.
C4_TickFollowedByNextSleep == TickInProgress ~> (sched.pc = "sleeping")

SchedulerRuns == {r \in RunIds : runs[r].trigger = "sched" /\ Active(r)}

\* C5: a run started by the scheduler executes inside the tick that started
\* it: while it is alive the scheduler is waiting for it, neither computing
\* the next trigger nor sleeping, and no second scheduler run is alive.
C5_SchedulerRunSynchronous ==
  /\ Cardinality(SchedulerRuns) <= 1
  /\ SchedulerRuns # {} => sched.pc = "pipeline"

C5_Witness ==
  /\ sched.pc = "pipeline"
  /\ \E r \in SchedulerRuns : runs[r].step = finalStepNum /\ runs[r].pc = "call"

\* C6: nothing excludes a new HTTP-triggered run while other runs execute:
\* the trigger is enabled in every state that has a goroutine to spare,
\* whatever the scheduler's run and the other HTTP runs are doing.
C6_NoMutualExclusion ==
  \A r \in HttpRuns : Free(r) => ENABLED handleRunHMSPipeline(r)

C6_Witness ==
  /\ runs[SchedRun].trigger = "sched" /\ runs[SchedRun].pc = "call"
  /\ \E h1, h2 \in HttpRuns :
       /\ h1 # h2
       /\ runs[h1].pc = "call" /\ runs[h2].pc = "call"
       /\ StepKind(runs[h1].variant, runs[h1].step) = "exec"
       /\ StepKind(runs[SchedRun].variant, runs[SchedRun].step) = "exec"

\* C7: every child process and every network call in flight carries a
\* deadline derived from the context of the trigger that started the run.
C7_EveryCallHasContextDeadline ==
  \A r \in RunIds :
    (runs[r].pc = "call" /\ StepKind(runs[r].variant, runs[r].step) \in {"exec", "net"})
      => CallDeadline(runs[r]) = "ctx"

(***************************************************************************)
(* Properties of the trigger time                                          *)
(***************************************************************************)
\* the hour of the wall clock, counted from midnight of day 0
HourIndex(t) == t \div SlicesPerHour

Handles(f) == f \in acq.pending /\ f \notin acq'.pending

C9_DownloadedAtMostOnce == \A f \in RemoteFiles : downloaded[f] <= 1

\* the windows as the claim states them
InLiveWindow(ts, t) == ts >= t - 24
InArchiveWindow(ts, t) == ts >= t - 48 /\ ts <= t - 24

InClaimedWindow(f, t) ==
  IF f.src = "rt" THEN InLiveWindow(f.ts, t) ELSE InArchiveWindow(f.ts, t)

\* C10: a download is issued only for a candidate whose stamp lies in the
\* window of its source, a candidate is skipped for its stamp exactly when
\* the stamp lies outside; with 24 hours back the live file stamped T-25h is
\* skipped and the one stamped T-1h is not.
C10_DownloadOnlyInsideWindow ==
  /\ lastOp.op = "get" => ParseOK(lastOp.file) /\ InClaimedWindow(lastOp.file, lastOp.now)
  /\ lastOp.op = "skipWindow" => ~InClaimedWindow(lastOp.file, lastOp.now)
  /\ lastOp.op \in {"get", "skipExists"} => InClaimedWindow(lastOp.file, lastOp.now)
  /\ (lastOp.op # "none" /\ lastOp.file.src = "rt" /\ lastOp.file.ts = lastOp.now - 25)
       => lastOp.op = "skipWindow"
  /\ (lastOp.op # "none" /\ lastOp.file.src = "rt" /\ lastOp.file.ts = lastOp.now - 1)
       => lastOp.op \in {"get", "skipExists"}

\* the archive file stamped exactly T-24h was fetched, the live file stamped
\* T-25h and the archive file stamped T-23h were left out
C10_Witness ==
  /\ lastOp.op = "get" /\ lastOp.file.src = "ar" /\ lastOp.file.ts = lastOp.now - 24
  /\ local[lastOp.file] = "complete"
  /\ \E f \in RtCatalogue : f.ts = lastOp.now - 1 /\ local[f] = "complete"
  /\ \E f \in RtCatalogue : f.ts = lastOp.now - 25 /\ local[f] = Absent
  /\ \E f \in ArCatalogue : f.ts = lastOp.now - 23 /\ local[f] = Absent

\* C11: when the acquisition stage has obtained no file at all the run aborts
\* at that stage; it goes on to the next step only with at least one file.
C11_ZeroDownloadsAbortRun ==
  acq.after = "continue" => \E f \in RemoteFiles : local[f] = "complete"

\* C13: rounding an already rounded time changes nothing, for both functions
\* and for every input string.
C13_RoundingIdempotent == rnd.pc = "again" => rnd.out = rnd.prev

\* "09:59" was rounded up to "10:00" and rounding that again gave "10:00"
C13_Witness ==
  /\ rnd.pc = "again" /\ rnd.fn = "up"
  /\ rnd.input = << "0", "9", ":", "5", "9" >>
  /\ rnd.prev = << "1", "0", ":", "0", "0" >>

\* a time in the format HH:MM with HH in 00..23 and MM in 00..59
ValidHHMM(t) ==
  /\ Len(t) = 5 /\ t[3] = ":"
  /\ \A i \in {1, 2, 4, 5} : IsDigit(t[i])
  /\ 10 * DigitVal(t[1]) + DigitVal(t[2]) <= 23
  /\ 10 * DigitVal(t[4]) + DigitVal(t[5]) <= 59

MinuteOfDay(t) ==
  60 * (10 * DigitVal(t[1]) + DigitVal(t[2])) + 10 * DigitVal(t[4]) + DigitVal(t[5])

\* C14: for a valid HH:MM the start rounded down is not later than the
\* requested start and the end rounded up is not earlier than the requested
\* end, so the rounded window covers the request.
C14_RoundedWindowCoversRequest ==
  (rnd.pc = "rounded" /\ ValidHHMM(rnd.input)) =>
     /\ ValidHHMM(rnd.out)
     /\ rnd.fn = "down" => MinuteOfDay(rnd.out) <= MinuteOfDay(rnd.input)
     /\ rnd.fn = "up" => MinuteOfDay(rnd.out) >= MinuteOfDay(rnd.input)

\* does the line start, after trimming, with one of the four labels?
StartsWithLabel(line) == \E l \in Labels : HasPrefix(TrimSpace(line), << l >>)

\* C12: a patch alters only the lines that start (after trimming) with one
\* of the four labels: every other line is identical and at the same position
\* in the output, the number of lines is unchanged, and a labelled line is
\* still a line of its label.
C12_PatchAltersOnlyLabelledLines ==
  (ctl.pc = "patched" /\ ctl.res = "ok") =>
    LET in == Split(ctl.before, "\n")
        out == Split(ctl.content, "\n")
    IN /\ Len(out) = Len(in)
       /\ \A i \in 1..Len(in) :
            IF StartsWithLabel(in[i])
            THEN \E l \in Labels : /\ HasPrefix(TrimSpace(in[i]), << l >>)
                                   /\ HasPrefix(TrimSpace(out[i]), << l >>)
            ELSE out[i] = in[i]

\* a file with the four labelled lines and an indented other line was patched
C12_Witness ==
  /\ ctl.pc = "patched" /\ ctl.res = "ok" /\ ctl.content # ctl.before
  /\ LET in == Split(ctl.before, "\n")
     IN /\ \A l \in Labels : \E i \in 1..Len(in) : HasPrefix(TrimSpace(in[i]), << l >>)
        /\ \E i \in 1..Len(in) : in[i] = << " ", "End" >>

\* the value written after a label: the text of the first line of the file
\* that starts with the label, without the label and the space after it
WrittenValue(content, label) ==
  LET lines == Split(content, "\n")
      i == CHOOSE k \in 1..Len(lines) : HasPrefix(TrimSpace(lines[k]), << label >>)
      t == TrimSpace(lines[i])
  IN SubSeq(t, 3, Len(t))

\* the instant a written date ("30 May 2025") and time ("11:00") denote
WrittenInstant(date, time) ==
  LET parts == Split(date, " ")
      month == CHOOSE m \in 1..12 : << MonthNames[m] >> = parts[2]
  IN DateUTC(Atoi(parts[3]).val, month, Atoi(parts[1]).val, 0, 0) + MinuteOfDay(time)

\* C15: the real-time patch writes start = (now in UTC, truncated to the
\* hour) - 47 h and end = (the same) + 12 h, dates rolled over; at any minute
\* of 2025-06-01T10 UTC it writes 30 May 2025 11:00 and 1 June 2025 22:00.
C15_RealTimeWindowFromNow ==
  (ctl.pc = "patched" /\ ctl.kind = "realtime" /\ ctl.res = "ok") =>
    LET startDate == WrittenValue(ctl.content, "Start Date:")
        startTime == WrittenValue(ctl.content, "Start Time:")
        endDate == WrittenValue(ctl.content, "End Date:")
        endTime == WrittenValue(ctl.content, "End Time:")
        hour == ctl.now - (ctl.now % 60)
    IN /\ WrittenInstant(startDate, startTime) = hour - 47 * 60
       /\ WrittenInstant(endDate, endTime) = hour + 12 * 60
       /\ hour = DateUTC(2025, 6, 1, 10, 0) =>
            /\ startDate = << "3", "0", " ", "May", " ", "2", "0", "2", "5" >>
            /\ startTime = << "1", "1", ":", "0", "0" >>
            /\ endDate = << "1", " ", "June", " ", "2", "0", "2", "5" >>
            /\ endTime = << "2", "2", ":", "0", "0" >>

\* patched at 2025-06-01T10:59 UTC
C15_Witness ==
  /\ ctl.pc = "patched" /\ ctl.kind = "realtime" /\ ctl.res = "ok"
  /\ ctl.now = DateUTC(2025, 6, 1, 10, 59)
  /\ WrittenValue(ctl.content, "Start Date:") = << "3", "0", " ", "May", " ", "2", "0", "2", "5" >>

\* the request's dates as the claim reads them: YYYYMMDD as a number orders
\* dates, the day count gives the span
DateNumber(s) == DigitsValue(s)
DayCount(s) == ParseYYYYMMDD(s).t \div MinutesPerDay

WellFormedDates == ParseYYYYMMDD(hreq.start).ok /\ ParseYYYYMMDD(hreq.end).ok

InvalidRange ==
  LET today == DateNumber(FormatYYYYMMDD(hreq.now))
  IN \/ DateNumber(hreq.start) > DateNumber(hreq.end)
     \/ DateNumber(hreq.start) < 20210101 \/ DateNumber(hreq.end) < 20210101
     \/ DateNumber(hreq.start) > today \/ DateNumber(hreq.end) > today
     \/ DayCount(hreq.end) - DayCount(hreq.start) > 4

RangeErrors ==
  { "dates must be from 2021 to current date", "dates cannot be in the future",
    "start date must be before or equal to end date", "date range cannot exceed 5 days" }

\* C16: the historical pipeline rejects a request whose start is after its
\* end, whose dates are before 2021-01-01 or in the future, or whose range
\* spans more than 4 days, and no external process is invoked for it; any
\* other range of well-formed dates, 5 inclusive days included, passes the
\* validation.
C16_InvalidRangeRejectedWithoutProcess ==
  \A r \in HttpRuns :
    (runs[r].variant = "historical" /\ hreq.pc = "answered" /\ WellFormedDates) =>
      IF InvalidRange
      THEN /\ \A i \in 1..Len(runs[r].executed) :
                StepKind("historical", runs[r].executed[i]) # "exec"
           /\ runs[r].pc # "done"
           /\ runs[r].pc = "failed" => runs[r].err.text \in RangeErrors
      ELSE runs[r].req = "ok"

\* 2021-01-01 to 2021-01-05, five days inclusive, reached the merge script;
C16_Witness ==
  \E r \in HttpRuns :
    /\ runs[r].variant = "historical" /\ runs[r].pc = "call" /\ runs[r].step = 2
    /\ hreq.start = << "2", "0", "2", "1", "0", "1", "0", "1" >>
    /\ hreq.end = << "2", "0", "2", "1", "0", "1", "0", "5" >>

\* C17: when a run returns the error of a malformed or out-of-range date or
\* run hour, no step that deletes, creates or overwrites files or clears a
\* directory has run before the validation.
C17_RejectedBeforeAnySideEffect ==
  \A r \in HttpRuns :
    (runs[r].pc = "failed" /\ runs[r].req # "ok") =>
       \A i \in 1..(Len(runs[r].executed) - 1) :
          FileEffect(runs[r].variant, runs[r].executed[i]) = "none"

\* C18: a historical request whose date range is invalid is not answered
\* "accepted" and starts no pipeline run.
C18_InvalidRangeNotDispatched ==
  (hreq.pc = "answered" /\ WellFormedDates /\ InvalidRange) =>
     /\ hreq.ack # 202
     /\ \A r \in HttpRuns : runs[r].variant # "historical"

\* C19: without a run hour the pipeline uses the current UTC hour minus one
\* as two digits, 23 when the UTC hour is 0; without a date it uses the
\* current date of the server's zone; what was supplied reaches the steps
\* unchanged.
C19_DefaultsForMissingArguments ==
  (args.pc = "step2") =>
    LET utcHour == (args.now \div 60) % 24
        wanted == IF utcHour = 0 THEN 23 ELSE utcHour - 1
        localNow == args.now + 60 * args.zone
        date == ParseYYYYMMDD(args.step2Date)
    IN /\ args.step1Date = args.step2Date
       /\ IF args.optionalRunHour = << >>
          THEN args.step2RunHour = << Digits[(wanted \div 10) + 1], Digits[(wanted % 10) + 1] >>
          ELSE args.step2RunHour = args.optionalRunHour
       /\ IF args.optionalDate = << >>
          THEN date.ok /\ date.t = localNow - (localNow % 1440)
          ELSE args.step2Date = args.optionalDate

\* called with nothing in the first hour of 2024-12-31 UTC in a zone six
\* hours behind: run hour 23, date 20241230
C19_Witness ==
  /\ args.pc = "step2" /\ args.optionalDate = << >> /\ args.optionalRunHour = << >>
  /\ args.zone = 0 - 6
  /\ args.step2RunHour = << "2", "3" >>
  /\ args.step2Date = << "2", "0", "2", "4", "1", "2", "3", "0" >>
  /\ args.valid

\* C20: whenever one of the three Twilio variables is unset or empty SendSMS
\* returns "missing required Twilio environment variables" and submits no
\* message to the provider.
C20_MissingEnvNoSubmission ==
  (sms.result # "none" /\ \E v \in TwilioVars : sms.env[v] \in {"unset", ""}) =>
     /\ sms.result = "missing required Twilio environment variables"
     /\ ~sms.sent

\* only the sender's number is empty, a message went out earlier
C20_Witness ==
  /\ sms.result = "missing required Twilio environment variables"
  /\ sms.env["TWILIO_ACCOUNT_SID"] = "value" /\ sms.env["TWILIO_AUTH_TOKEN"] = "value"
  /\ sms.env["TWILIO_FROM_NUMBER"] = ""
  /\ sms.submitted = 1

C22_MissingArtifactSkipsTick ==
  [][(sched.pc = "sleeping" /\ ~rolling /\ sched' # sched) =>
       /\ sched'.pc = "loop" /\ sched'.skipped
       /\ archiveCopy' = "none"
       /\ rolling' = rolling
       /\ runs' = runs]_vars

\* a tick skipped: nothing archived, nothing running for the scheduler
C22_Witness ==
  /\ sched.pc = "loop" /\ sched.skipped
  /\ ~rolling /\ archiveCopy = "none"
  /\ \A r \in RunIds : runs[r].trigger # "sched"

\* C23: the deletion of the rolling artifact makes at most 5 attempts; the
\* loop goes on only after an error that is neither a permission nor a
\* not-exist error, with 100 ms waited before the next attempt, and each
\* further attempt counts towards the 5, so the loop ends.
C23_BoundedDeleteRetries ==
  /\ [][(sched.pc = "delete" /\ sched' # sched) =>
          /\ sched.attempts < 5
          /\ rolling' # rolling => sched'.pc = "extra"
          /\ sched'.pc \in {"delete", "extra"}
          /\ sched'.pc = "delete" =>
               /\ sched'.lastDelete = "transient"
               /\ sched'.wait = 100
               /\ sched'.attempts = sched.attempts + 1
               /\ sched'.attempts < 5]_vars
  /\ [](sched.pc = "delete" => sched.lastDelete \in {"none", "transient"})

\* the fifth attempt is about to be made
C23_Witness == sched.pc = "delete" /\ sched.attempts = 4 /\ sched.wait = 100 /\ rolling

\* C24: each file of filesToDelete is handled on its own: a missing file is
\* no error, and a failed stat or delete of one file stops neither the
\* attempts on the files after it nor the start of the pipeline in that tick.
C24_ExtraDeletesBestEffort ==
  /\ [][(sched.pc = "extra" /\ sched' # sched) =>
          /\ sched.idx < 4 => (sched'.pc = "extra" /\ sched'.idx = sched.idx + 1)
          /\ sched.idx = 4 => sched'.pc = "trigger"]_vars
  /\ [][(sched.pc = "trigger" /\ sched' # sched) =>
          (sched'.pc = "pipeline" /\ \E r \in RunIds : Active(r)' /\ runs'[r].trigger = "sched")]_vars

\* the stat or the delete of the fourth file failed, the fifth is tried next
C24_Witness == sched.pc = "extra" /\ sched.idx = 4 /\ sched.logged

(***************************************************************************)
(* Properties of the acquisition's loops                                   *)
(***************************************************************************)
\* C25: no candidate stops the batch: after a candidate whose name does not
\* match the timestamp pattern, or whose download fails, the loop goes on
\* with every other candidate of the listing.
C25_CandidateFailureKeepsBatch ==
  [][(/\ acq.pc \in {"rtLoop", "arLoop"}
      /\ acq' # acq
      /\ \/ lastOp'.op = "skipParse"
         \/ lastOp'.op = "get" /\ local'[lastOp'.file] # "complete") =>
       /\ acq'.pending = acq.pending \ {lastOp'.file}
       /\ acq'.pending # {} => acq'.pc = acq.pc]_vars

\* a download that wrote nothing, with candidates of the listing left
C25_Witness ==
  /\ acq.pc = "rtLoop" /\ acq.pending # {}
  /\ lastOp.op = "get" /\ local[lastOp.file] = Absent
  /\ \E f \in acq.pending : ~ParseOK(f)

\* C26: the forecast acquisition attempts every forecast hour from 2 through
\* 12, whatever became of the hours before (404, another status, a network
\* error, a local write failure), and a 404 does not make the stage fail.
C26_EveryForecastHourAttempted ==
  (hrrr.pc = "returned" /\ hrrr.ret = "nil") => hrrr.attempted = 2..12

C28_LiveClearsArchiveKeeps ==
  [][/\ (acq'.pc = "rtList" /\ acq.pc # "rtList") => acq.pc = "rtClear"
     /\ acq.pc = "rtClear" =>
          /\ acq'.pc = "rtList"
          /\ \A f \in RemoteFiles : local'[f] \in {Absent, local[f]}
     /\ acq.pc \in {"arStart", "arList", "arLoop"} =>
          \A f \in RemoteFiles : local[f] # Absent => local'[f] = local[f]]_vars

\* the archive stage at a candidate whose file, broken off in an earlier run,
\* is still there, the live files of that run cleared
C28_Witness ==
  /\ acq.pc = "arLoop" /\ acq.run = 2
  /\ \E f \in acq.pending : local[f] = "partial" /\ ~OutsideArchiveWindow(f.ts, acq.now)
  /\ \A f \in RtCatalogue : local[f] = Absent
  /\ \E f \in RtCatalogue : downloaded[f] > 0

(***************************************************************************)
(* Properties of the control file's fields                                 *)
(***************************************************************************)
\* the lines of a file that start, after trimming, with the label
LinesOf(content, label) ==
  LET lines == Split(content, "\n")
  IN {i \in 1..Len(lines) : HasPrefix(TrimSpace(lines[i]), << label >>)}

\* the values the patches write: the real-time patch at 2025-06-01T10 UTC,
\* the historical patch for 1 to 5 January 2021 with no start time and the
\* end time 09:59, and for 28 February to 1 March 2024 from 23:59 to "x"
ExpectedValues(kind) ==
  LET vals(sd, st, ed, et) ==
        [l \in Labels |-> CASE l = "Start Date:" -> sd [] l = "Start Time:" -> st
                            [] l = "End Date:" -> ed [] OTHER -> et]
  IN IF kind = "realtime"
     THEN {vals(<< "3", "0", " ", "May", " ", "2", "0", "2", "5" >>, << "1", "1", ":", "0", "0" >>,
                << "1", " ", "June", " ", "2", "0", "2", "5" >>, << "2", "2", ":", "0", "0" >>)}
     ELSE {vals(<< "1", " ", "January", " ", "2", "0", "2", "1" >>, << "0", "0", ":", "0", "0" >>,
                << "5", " ", "January", " ", "2", "0", "2", "1" >>, << "1", "0", ":", "0", "0" >>),
           vals(<< "2", "8", " ", "February", " ", "2", "0", "2", "4" >>, << "2", "3", ":", "0", "0" >>,
                << "1", " ", "March", " ", "2", "0", "2", "4" >>, << "2", "3", ":", "0", "0" >>)}

\* C29: a patch of a control file without a line for one of the four fields
\* succeeds, leaves the file without that field, and writes the fields that
\* are there.
C29_MissingFieldLeftOut ==
  ctl.pc = "patched" =>
    LET in == Split(ctl.before, "\n")
        out == Split(ctl.content, "\n")
        trimmedIn == [i \in 1..Len(in) |-> TrimSpace(in[i])]
        labelOf == [i \in 1..Len(in) |->
                      {l \in Labels : trimmedIn[i] # << >> /\ trimmedIn[i][1] = l}]
    IN (\E l \in Labels : \A i \in 1..Len(in) : l \notin labelOf[i]) =>
         /\ ctl.res \in {"ok", "readErr", "writeErr"}
         /\ ctl.res = "ok" =>
              /\ Len(out) = Len(in)
              /\ \E vals \in ExpectedValues(ctl.kind) :
                   \A i \in 1..Len(in) :
                     IF labelOf[i] = {}
                     THEN \A l \in Labels : ~HasPrefix(TrimSpace(out[i]), << l >>)
                     ELSE \A l \in labelOf[i] :
                            out[i] = << " ", " ", " ", " ", " ", l, " " >> \o vals[l]

\* a file with a Start Date and an End Time line and no line for the other
\* two fields, patched without error
C29_Witness ==
  /\ ctl.pc = "patched" /\ ctl.res = "ok" /\ ctl.content # ctl.before
  /\ LinesOf(ctl.before, "Start Date:") = {1} /\ LinesOf(ctl.before, "End Time:") = {2}
  /\ LinesOf(ctl.content, "Start Time:") = {} /\ LinesOf(ctl.content, "End Date:") = {}

\* a label without regard to the case of its letters
FoldCase(token) ==
  CASE token \in {"Start Date:", "start date:", "START DATE:"} -> "start date:"
    [] token \in {"End Date:", "end date:", "END DATE:"} -> "end date:"
    [] token \in {"Start Time:", "start time:", "START TIME:"} -> "start time:"
    [] token \in {"End Time:", "end time:", "END TIME:"} -> "end time:"
    [] OTHER -> token

\* C30: a line whose trimmed text starts with one of the four labels, in any
\* letter case and after any leading whitespace, is recognized and replaced
\* by the line of its label.
C30_LabelsInAnyCaseReplaced ==
  (ctl.pc = "patched" /\ ctl.res = "ok") =>
    LET in == Split(ctl.before, "\n")
        out == Split(ctl.content, "\n")
    IN \A i \in 1..Len(in) : \A l \in Labels :
         (TrimSpace(in[i]) # << >> /\ FoldCase(TrimSpace(in[i])[1]) = FoldCase(l)) =>
           (Len(out) >= i /\ HasPrefix(out[i], << " ", " ", " ", " ", " ", l, " " >>))

(***************************************************************************)
(* The indent of a rewritten line                                          *)
(***************************************************************************)
\* the line a patch is to write for a label: indent, label, a space, value
IndentedLine(indent, label, value) == [k \in 1..indent |-> " "] \o << label, " " >> \o value

\* every line of the input that the switch recognizes is, in the output,
\* the line of its label with the given number of spaces before it
RecognizedLinesIndentedBy(indent) ==
  (ctl.pc = "patched" /\ ctl.res = "ok") =>
    LET in == Split(ctl.before, "\n")
        out == Split(ctl.content, "\n")
    IN /\ Len(out) = Len(in)
       /\ \E vals \in ExpectedValues(ctl.kind) :
            \A i \in 1..Len(in) : \A l \in Labels :
              HasPrefix(TrimSpace(in[i]), << l >>) => out[i] = IndentedLine(indent, l, vals[l])

\* C31 as stated: every recognized control-file line is replaced by a line
\* of exactly four spaces of indent followed by the label and the value,
\* whatever its original indentation.
C31_FourSpaceIndent == RecognizedLinesIndentedBy(4)

\* C31 as amended: every recognized control-file line is replaced by a line
\* of exactly five spaces of indent followed by the label, one space and the
\* value, whatever its original indentation.
C31_FiveSpaceIndent == RecognizedLinesIndentedBy(5)

\* a line indented by a tab and a space and a line without indent, both
\* recognized, were rewritten
C31_Witness ==
  /\ ctl.pc = "patched" /\ ctl.res = "ok"
  /\ LET in == Split(ctl.before, "\n")
     IN /\ Len(in) = 2
        /\ in[1] = << "\t", " ", "End Date:", " ", "x" >>
        /\ in[2] = << "Start Date:", " ", "x" >>
        /\ Split(ctl.content, "\n")[1] # in[1]

(***************************************************************************)
(* Settling delays of the real-time pipeline                               *)
(***************************************************************************)
\* C32: between every two consecutive steps of a real-time run a settling
\* delay is slept: no step starts right after the previous step returned,
\* and the delay is the long one exactly after 'Merge GRIB Files RealTime'.
C32_DelayBetweenSteps ==
  [][\A r \in RunIds :
       (/\ runs[r].variant = "realtime" /\ runs[r].executed # << >>
        /\ runs'[r].executed = Append(runs[r].executed, runs'[r].step)) =>
         /\ runs[r].pc = "delay"
         /\ runs[r].delay \in {"short", "long"}
         /\ runs[r].delay = "long" <=>
              StepName("realtime", runs[r].step) = "Merge GRIB Files RealTime"]_vars

(***************************************************************************)
(* Archive before removal                                                  *)
(***************************************************************************)
\* C33: during a tick the rolling artifact is removed only after a complete
\* copy of it exists in the archive directory, so that no content of the
\* artifact is lost from both places, also while pipelines run that write
\* the artifact; when the copy fails the partial archive file is removed and
\* the original is left in place.
C33_ArchivedBeforeRemoved ==
  /\ [][(rolling /\ ~rolling') => (archiveCopy = "complete" /\ ~unarchived)]_vars
  /\ [][(sched.pc = "copy" /\ sched'.pc = "loop") =>
          (archiveCopy' = "none" /\ rolling' = rolling)]_vars

(***************************************************************************)
(* The tick triggers the pipeline exactly when the archive copy succeeded  *)
(***************************************************************************)
\* the steps of the archive copy, in the order of the code
ArchivePhases == << "mkdir", "open", "create", "copy", "delete" >>

\* C34: within a scheduler tick the pipeline is triggered if and only if
\* the archive copy succeeded: a failure to create the archive directory,
\* to open the source, to create or to write the archive file ends the tick
\* with no pipeline run; once the copy is complete, no failure to delete
\* the original or the intermediate artifacts keeps the tick from reaching
\* the call of the pipeline.
C34_TriggeredIffArchived ==
  /\ [][(sched' # sched /\ sched.pc \in {"mkdir", "open", "create", "copy"}) =>
          LET k == CHOOSE i \in 1..4 : ArchivePhases[i] = sched.pc
          IN /\ runs' = runs
             /\ sched'.pc \in {"loop", ArchivePhases[k + 1]}
             /\ sched.pc = "create" => (sched'.pc = "copy" <=> archiveCopy' = "partial")
             /\ sched.pc = "copy" => (sched'.pc = "delete" <=> archiveCopy' = "complete")]_vars
  /\ [][(sched' # sched /\ sched.pc \in {"delete", "extra", "trigger"}) =>
          /\ sched'.pc \in {"delete", "extra", "trigger", "pipeline"}
          /\ sched'.pc = "pipeline" <=> sched.pc = "trigger"
          /\ sched.pc = "trigger" =>
               \E r \in RunIds : /\ (runs[r].trigger # "sched" \/ ~Active(r))
                                  /\ runs'[r].trigger = "sched" /\ runs'[r].pc = "call"]_vars
  /\ []((\E r \in RunIds : runs[r].trigger = "sched" /\ Active(r)) =>
          (sched.pc = "pipeline" /\ archiveCopy = "complete"))
  /\ [](sched.pc \in {"delete", "extra", "trigger", "pipeline"} => archiveCopy = "complete")

\* the tick's run has started although the original could not be deleted
\* (it is still there, and no other run exists that could have written it)
C34_Witness ==
  /\ sched.pc = "pipeline" /\ rolling /\ archiveCopy = "complete"
  /\ \E r \in RunIds :
       /\ runs[r].trigger = "sched" /\ runs[r].pc = "call" /\ runs[r].step = 1
       /\ \A q \in RunIds \ {r} : runs[q] = IdleRun

(***************************************************************************)
(* Intermediate artifacts between merge and combine                        *)
(***************************************************************************)
\* C35: the intermediate artifact a merge step of a run has produced still
\* exists when the combine step of the same run that reads it starts,
\* under every interleaving of the run with scheduler ticks and other runs.
C35_MergeOutputThereForCombine ==
  [][\A r \in RunIds :
       (/\ runs'[r].variant = "realtime" /\ runs'[r].pc = "call"
        /\ runs'[r].executed = Append(runs[r].executed, runs'[r].step)) =>
         \A f \in InputsOf(runs'[r].step) :
           (\E i \in 1..Len(runs[r].executed) :
              /\ f \in OutputOf(runs[r].executed[i])
              /\ StepName("realtime", runs[r].executed[i]) = "Merge GRIB Files RealTime Pass 2")
             => f \in interm']_vars

(***************************************************************************)
(* Failed downloads and the already-exists check                           *)
(***************************************************************************)
\* C36: after a download of a grid file that failed at any point no file is
\* at the decompressed target path (a download leaves its target complete
\* or absent), so the already-exists check of a later acquisition never
\* skips a candidate whose local file is incomplete.
C36_FailedDownloadLeavesNoFile ==
  /\ [][lastOp'.op = "get" => local'[lastOp'.file] \in {Absent, "complete"}]_vars
  /\ [](lastOp.op = "skipExists" => local[lastOp.file] = "complete")

(***************************************************************************)
(* The sleep of the scheduler                                              *)
(***************************************************************************)
\* C37: for every value of now the next run time the scheduler computes is
\* strictly later than now and at most one hour after now: the sleep is
\* positive and never longer than one hour.
C37_SleepPositiveAtMostHour ==
  zclk.pc = "sleeping" =>
    (zclk.nextRun > zclk.now /\ zclk.nextRun - zclk.now <= SlicesPerHour)

(***************************************************************************)
(* A patch of a patched file                                               *)
(***************************************************************************)
\* C38: the patch can be applied again: every line a patch has written is
\* recognized by the next patch, which writes its own value there, and a
\* patch with the same values leaves an already patched file unchanged.
C38_PatchReapplicable ==
  [][(/\ ctl.pc = "patched" /\ ctl.res = "ok"
      /\ ctl'.pc = "patchedAgain" /\ ctl'.res = "ok") =>
       LET orig == Split(ctl.before, "\n")
           once == Split(ctl.content, "\n")
           twice == Split(ctl'.content, "\n")
       IN /\ Len(twice) = Len(once)
          /\ \A i \in 1..Len(orig) : \A l \in Labels :
               HasPrefix(TrimSpace(orig[i]), << l >>) =>
                 /\ once[i] = IndentedLine(5, l, ctl.vals[l])
                 /\ twice[i] = IndentedLine(5, l, ctl'.vals[l])
          /\ ctl'.vals = ctl.vals => ctl'.content = ctl.content]_vars

\* a file with two labelled lines, patched for one historical request and
\* patched again: for the other request, and the file changed
C38_Witness ==
  /\ ctl.pc = "patchedAgain" /\ ctl.res = "ok" /\ ctl.kind = "historical"
  /\ ctl.content # ctl.before
  /\ LET once == Split(ctl.before, "\n")
         twice == Split(ctl.content, "\n")
     IN /\ Len(once) = 2 /\ Len(twice) = 2
        /\ HasPrefix(once[1], << " ", " ", " ", " ", " ", "Start Date:" >>)
        /\ HasPrefix(twice[1], << " ", " ", " ", " ", " ", "Start Date:" >>)
        /\ HasPrefix(twice[2], << " ", " ", " ", " ", " ", "End Time:" >>)

====
